---- MODULE Spec2Model ----
(***************************************************************************)
(* A model of the GitHub-backed wiki client (the wiki script of the site): *)
(* the remote content store, the page tree built from its listing, the     *)
(* local drafts and tree snapshot, and the edit session with its hash      *)
(* checks.                                                                 *)
(*                                                                         *)
(* Every async function of the script is a task: its position (pc) and its *)
(* locals are kept while a request is in flight, and one action delivers   *)
(* the response and runs the function up to its next request.  An await of *)
(* a promise that needs no request does not let any event in.              *)
(***************************************************************************)
EXTENDS Integers, Sequences, FiniteSets, TLC

(***************************************************************************)
(* Values                                                                  *)
(***************************************************************************)

\* const CONTENT_PATH = 'content'
CONTENT_PATH == "content"

\* null / undefined, for a page identifier, a hash and a string
NoPage == <<>>
NoSha == <<>>
NULL == "null"

\* The content hash the store gives a body: a git blob hash, a function of
\* the content alone.
ShaOf(text) == <<"sha", text>>

\* pageId.split('/') is the identifier itself: a sequence of segments.
\* parts.length > 1 ? parts.slice(0, -1).join('/') : null
ParentOf(pageId) ==
    IF Len(pageId) > 1 THEN SubSeq(pageId, 1, Len(pageId) - 1) ELSE NoPage

(***************************************************************************)
(* The page tree (loadWikiFromGitHub)                                      *)
(***************************************************************************)

\* One name in its two normal forms: the letter e with an acute accent as one
\* code point, and as the letter e followed by the combining accent.  The two
\* are different strings, and different paths of the store.
E_COMPOSED == "e-acute:U+00E9"
E_DECOMPOSED == "e-acute:U+0065,U+0301"

\* The order of the segments under localeCompare, for the names the model
\* uses: strings that are canonically equivalent compare equal.
SegRank(s) ==
    CASE s = "" -> 0
      [] s = "a" -> 1
      [] s = "b" -> 2
      [] s = "content" -> 3
      [] s = E_COMPOSED -> 4
      [] s = E_DECOMPOSED -> 4
      [] s = "home" -> 5
      [] s = "images" -> 6
      [] s = "n" -> 7
      [] s = "n-1" -> 8
      [] s = "n-2" -> 9
      [] s = "untitled" -> 10
      [] OTHER -> 11

\* a.path.localeCompare(b.path) < 0, on paths as sequences of segments: the
\* first differing segment decides, and a path sorts before its extensions.
RECURSIVE PathLess(_, _)
PathLess(p, q) ==
    IF p = <<>> THEN q # <<>>
    ELSE IF q = <<>> THEN FALSE
    ELSE IF Head(p) = Head(q) THEN PathLess(Tail(p), Tail(q))
    ELSE SegRank(Head(p)) < SegRank(Head(q))

\* (a filter that takes the markdown files of every directory)
IsMarkdownFileAnywhere(item) ==
    /\ Len(item.path) >= 2
    /\ item.ext = "md"

\* item.path.startsWith(CONTENT_PATH + '/') && item.path.endsWith('.md')
IsMarkdownFile(item) ==
    /\ Len(item.path) >= 2
    /\ Head(item.path) = CONTENT_PATH
    /\ item.ext = "md"

RECURSIVE FilterSeq(_)
FilterSeq(items) ==
    IF items = <<>> THEN <<>>
    ELSE IF IsMarkdownFile(Head(items))
         THEN <<Head(items)>> \o FilterSeq(Tail(items))
         ELSE FilterSeq(Tail(items))

RECURSIVE InsertSorted(_, _)
InsertSorted(item, sorted) ==
    IF sorted = <<>> THEN <<item>>
    ELSE IF ~PathLess(Head(sorted).path, item.path)
         THEN <<item>> \o sorted
         ELSE <<Head(sorted)>> \o InsertSorted(item, Tail(sorted))

\* .sort((a, b) => a.path.localeCompare(b.path)): the sort is stable, items
\* that compare equal stay in the order they came in.
RECURSIVE SortByPath(_)
SortByPath(items) ==
    IF items = <<>> THEN <<>>
    ELSE InsertSorted(Head(items), SortByPath(Tail(items)))

\* (an identifier that keeps only the first segment under the content root)
PageIdOfFirstSegment(file) == <<Head(Tail(file.path))>>

\* file.path.replace(CONTENT_PATH + '/', '').replace(/\.md$/, '')
PageIdOf(file) == Tail(file.path)

\* The second pass of loadWikiFromGitHub decides where a page goes:
\*   if (page.parentId && pagesById[page.parentId]) -> the parent's children
\*   else if (!page.parentId)                       -> tree_root
\* A page with a parent identifier that is no page goes nowhere.
IsRootPage(pageId, known) == ParentOf(pageId) = NoPage

IsChildOf(pageId, parent, known) ==
    /\ ParentOf(pageId) # NoPage
    /\ ParentOf(pageId) = parent
    /\ parent \in known

RECURSIVE SelectRoots(_, _)
SelectRoots(ids, known) ==
    IF ids = <<>> THEN <<>>
    ELSE IF IsRootPage(Head(ids), known)
         THEN <<Head(ids)>> \o SelectRoots(Tail(ids), known)
         ELSE SelectRoots(Tail(ids), known)

RECURSIVE SelectChildren(_, _, _)
SelectChildren(ids, parent, known) ==
    IF ids = <<>> THEN <<>>
    ELSE IF IsChildOf(Head(ids), parent, known)
         THEN <<Head(ids)>> \o SelectChildren(Tail(ids), parent, known)
         ELSE SelectChildren(Tail(ids), parent, known)

SeqRange(s) == {s[i] : i \in DOMAIN s}

\* wikiData = null
NullWiki == [isNull |-> TRUE, pages |-> <<>>, pagesById |-> <<>>, tree |-> <<>>]

\* loadWikiFromGitHub, given tree.tree of the listing's response
BuildWiki(items) ==
    LET markdownFiles == SortByPath(FilterSeq(items))
        pages == [i \in DOMAIN markdownFiles |-> PageIdOf(markdownFiles[i])]
        known == SeqRange(pages)
        fileOf(id) == CHOOSE f \in SeqRange(markdownFiles) : PageIdOf(f) = id
    IN  [isNull |-> FALSE,
         pages |-> pages,
         pagesById |->
            [id \in known |->
                [sha |-> fileOf(id).sha,
                 markdown |-> NULL,
                 loaded |-> FALSE,
                 parentId |-> ParentOf(id),
                 children |-> SelectChildren(pages, id, known)]],
         tree |-> SelectRoots(pages, known)]

(***************************************************************************)
(* Bounds of the model                                                     *)
(***************************************************************************)

\* Requests in flight at once.
MaxTasks == 2
\* Clicks on move, delete and logout, reloads of the document, and waits.
MaxOpEvents == 2
\* Clicks and key strokes of the user.
MaxUserEvents == 4
\* Times the document is shown again (visibilitychange).
MaxShownAgain == 1
\* Writes by other clients of the store.
MaxOtherWrites == 1
\* Pending setTimeout(..., 1500) callbacks of saveEdit.
MaxCloseTimers == 1
\* Files of the listing in the tree specification.
MaxListing == 3

(***************************************************************************)
(* The universe of pages and texts                                         *)
(***************************************************************************)

\* Bodies: Latin-1 texts, each with the first heading "# N".  The pages
\* start with t0 and t1; the user types t2 (or clears the editor); another
\* client writes t3.
UserTexts == {"t2"}
OtherTexts == {"t3"}
Texts == {"t0", "t1"} \cup UserTexts \cup OtherTexts
\* what the user can leave in the editor: a text, nothing, white space, or
\* a text without heading that has a character above U+00FF
WHITESPACE == " "
WIDE_TEXT == "U+20AC"
\* a text whose first heading has no letter and no digit
BARE_HEADING_TEXT == "# !"
TypedTexts == UserTexts \cup {"", WHITESPACE, WIDE_TEXT, BARE_HEADING_TEXT}
\* startNewPage's template '# \n\n', and what a textarea shows for an object
TEMPLATE == "# "
OBJECT_TEXT == "[object Object]"

\* filename-counter of getUniqueFilename
Suffixed(base, counter) ==
    CASE counter = 0 -> base
      [] counter = 1 /\ base = "n" -> "n-1"
      [] counter = 2 /\ base = "n" -> "n-2"
      [] OTHER -> "other"

\* generateFilename: the slug of the first heading, as it is, else the slug
\* of the first 50 characters or, when that is empty, 'untitled'.  Every text
\* of Texts has the heading "# N"; the template has no heading and its slug
\* is empty.
generateFilename(text) ==
    IF text \in Texts THEN "n"
    ELSE IF text = BARE_HEADING_TEXT THEN ""
    ELSE IF text = OBJECT_TEXT THEN "object-object"
    ELSE "untitled"

HOME == <<"home">>
PAGE_A == <<"a">>
\* The pages of the model: two pages that exist from the start, and the
\* pages that a new page becomes when it is saved under home as the template
\* stands, or under a with a text of the user, and the page that a becomes
\* when it is moved under home, and the page with the empty name that a new
\* page becomes under home when its heading has an empty slug.
PageUniverse ==
    {HOME, PAGE_A, HOME \o <<"untitled">>, PAGE_A \o <<"n">>,
     HOME \o PAGE_A, HOME \o <<"">>}

(***************************************************************************)
(* State                                                                   *)
(***************************************************************************)

VARIABLES
    \* the remote store: the body of each page's file (NULL: no file), who
    \* wrote it last, and how many writes other clients have made
    remote, remoteBy, otherWrites,
    \* the script's module-level variables
    githubToken, wikiData, currentPage, originalMarkdown, isEditMode,
    isNewPage, autoSaveTimer, editStartSha, lastKnownRemoteSha, isMoveMode,
    pageToMove,
    \* sessionStorage (githubToken and currentPage) and location.hash
    sessionStorage, locationHash,
    \* whether #move-button and #delete-button are displayed
    moveDisplay, deleteDisplay,
    \* the document: #markdown-editor's value, #status-message's text,
    \* #save-button's disabled flag, #content's body
    editor, status, saveDisabled, content,
    \* localStorage: pageDrafts and wikiDataCache
    pageDrafts, wikiDataCache,
    \* the async functions waiting for a response, and the pending
    \* setTimeout(..., 1500) callbacks of saveEdit
    tasks, closeTimers,
    \* how many clicks and key strokes the user has made, and how many times
    \* the document was shown again
    userEvents, shownAgain,
    \* how many times the user has clicked move, delete or logout, reloaded
    \* the document or left it alone for hours, and the hours since the
    \* script last ran
    opEvents, idleHours,
    \* the pages whose edit was saved or discarded while no enterEditMode was
    \* waiting, with no edit begun by the user on them since (for the claims)
    draftCleared,
    \* the pages that had another hash in the store than editStartSha when
    \* saveEdit was last called on them (for the claims)
    changedBeforeSave,
    \* the tree specification: a listing as the store returns it, and the
    \* pages that some earlier build found without their parent
    listing, wasOrphan,
    \* the camping page: the component's state favorites, favoritesSha and
    \* savingAreaId, the file favorites.json of the repository, and the calls
    \* of saveFavorites waiting for a response
    favorites, favoritesSha, savingAreaId, favoritesFile, campSaves

campVars ==
    <<favorites, favoritesSha, savingAreaId, favoritesFile, campSaves>>
storeVars == <<remote, remoteBy, otherWrites>>
treeVars == <<listing, wasOrphan>>
ghostVars == <<draftCleared, changedBeforeSave>>
clientVars ==
    <<githubToken, wikiData, currentPage, originalMarkdown, isEditMode,
      isNewPage, autoSaveTimer, editStartSha, lastKnownRemoteSha, editor,
      status, saveDisabled, content, pageDrafts, wikiDataCache, tasks,
      closeTimers, isMoveMode, pageToMove, sessionStorage, locationHash,
      moveDisplay, deleteDisplay, userEvents, shownAgain, opEvents,
      idleHours>>
vars == <<storeVars, clientVars, treeVars, ghostVars, campVars>>

\* The client's state as one record, so that a handler is the composition
\* of the functions it calls.
Client ==
    [githubToken |-> githubToken, wikiData |-> wikiData,
     currentPage |-> currentPage, originalMarkdown |-> originalMarkdown,
     isEditMode |-> isEditMode, isNewPage |-> isNewPage,
     autoSaveTimer |-> autoSaveTimer, editStartSha |-> editStartSha,
     lastKnownRemoteSha |-> lastKnownRemoteSha, editor |-> editor,
     status |-> status, saveDisabled |-> saveDisabled, content |-> content,
     pageDrafts |-> pageDrafts, wikiDataCache |-> wikiDataCache,
     tasks |-> tasks, closeTimers |-> closeTimers,
     isMoveMode |-> isMoveMode, pageToMove |-> pageToMove,
     sessionStorage |-> sessionStorage, locationHash |-> locationHash,
     moveDisplay |-> moveDisplay, deleteDisplay |-> deleteDisplay]

Commit(c) ==
    /\ githubToken' = c.githubToken
    /\ wikiData' = c.wikiData
    /\ currentPage' = c.currentPage
    /\ originalMarkdown' = c.originalMarkdown
    /\ isEditMode' = c.isEditMode
    /\ isNewPage' = c.isNewPage
    /\ autoSaveTimer' = c.autoSaveTimer
    /\ editStartSha' = c.editStartSha
    /\ lastKnownRemoteSha' = c.lastKnownRemoteSha
    /\ editor' = c.editor
    /\ status' = c.status
    /\ saveDisabled' = c.saveDisabled
    /\ content' = c.content
    /\ pageDrafts' = c.pageDrafts
    /\ wikiDataCache' = c.wikiDataCache
    /\ tasks' = c.tasks
    /\ closeTimers' = c.closeTimers
    /\ isMoveMode' = c.isMoveMode
    /\ pageToMove' = c.pageToMove
    /\ sessionStorage' = c.sessionStorage
    /\ locationHash' = c.locationHash
    /\ moveDisplay' = c.moveDisplay
    /\ deleteDisplay' = c.deleteDisplay
    /\ idleHours' = 0
    /\ Cardinality(c.tasks) <= MaxTasks

\* A click or key stroke of the user, within the bound.
UserEvent ==
    /\ userEvents < MaxUserEvents
    /\ userEvents' = userEvents + 1
    /\ UNCHANGED <<shownAgain, opEvents>>

\* #content while a body is fetched
LOADING == "Loading..."

NoDraft == [content |-> NULL, baseSha |-> NoSha]
NoObj ==
    [sha |-> NoSha, markdown |-> NULL, loaded |-> FALSE, parentId |-> NoPage,
     children |-> <<>>]
NoTimer == [armed |-> FALSE, after |-> 0]
\* sessionStorage with neither item
NoSession == [githubToken |-> NULL, currentPage |-> NoPage]

\* localStorage.getItem('wikiDataCache'): absent, or the JSON of wikiData
\* (of null too)
NoCache == [present |-> FALSE, data |-> NullWiki]
Stored(w) == [present |-> TRUE, data |-> w]

\* A waiting async function: its kind, where it waits, and its locals.
\*   page     the page identifier it works on (pageId, filePath, currentPage
\*            as read before the await)
\*   sha      the blob hash asked for (fetchPageContent)
\*   draft    enterEditMode's draftObj
\*   path     the page whose file the request in flight is for
\*   parent   saveEdit's parentPath, counter: getUniqueFilename's counter
\*   text     saveEdit's newContent, putSha: the sha of its PUT
\*   stale    its `page` object belongs to a wikiData that was replaced, and
\*            obj is that object
\*   skipHistory  loadPage's argument
\*   token    the request in flight was sent with a token
\*   editStart, confirmed: editStartSha when saveEdit was called, and whether
\*            the user accepted the overwrite confirmation (for the claims)
NewTask ==
    [kind |-> "none", pc |-> "none", page |-> NoPage, sha |-> NoSha,
     draft |-> NoDraft, path |-> NoPage, parent |-> NoPage, counter |-> 0, text |-> NULL,
     putSha |-> NoSha, stale |-> FALSE, obj |-> NoObj, editStart |-> NoSha,
     confirmed |-> FALSE, skipHistory |-> FALSE, token |-> TRUE]

\* githubAPI sends the request with `token ${githubToken}` as it is at the
\* call: the store answers a request sent without a token with 401.
AddTask(c, t) ==
    [c EXCEPT !.tasks = @ \cup {[t EXCEPT !.token = c.githubToken # NULL]}]

\* The response `net` can be the answer to the request of t.
Answers(t, net) == net = "ok" => t.token
DropTask(c, t) == [c EXCEPT !.tasks = @ \ {t}]

HasPage(c, pageId) ==
    /\ ~c.wikiData.isNull
    /\ pageId \in DOMAIN c.wikiData.pagesById

\* The object a task's `page` refers to.
PageRef(c, t) == IF t.stale THEN t.obj ELSE c.wikiData.pagesById[t.page]

\* wikiData = <a new object>: the page objects held by waiting functions stay
\* what they were.
ReplaceWiki(c, w) ==
    [c EXCEPT
        !.wikiData = w,
        !.tasks = {IF t.kind \in {"load", "edit"} /\ ~t.stale
                   THEN [t EXCEPT !.stale = TRUE,
                                  !.obj = c.wikiData.pagesById[t.page]]
                   ELSE t : t \in c.tasks}]

(***************************************************************************)
(* The store (the content API the script calls through githubAPI)          *)
(***************************************************************************)

\* btoa(newContent) / atob(blob.content): base64 of a Latin-1 text, and back
\* btoa throws InvalidCharacterError on a character above U+00FF
BtoaThrows(text) == text = WIDE_TEXT
Btoa(text) ==
    IF BtoaThrows(text) THEN <<"InvalidCharacterError">>
    ELSE <<"base64", text>>
Atob(b64) == b64[2]

\* GET /contents/<path>: the file's hash, or a 404
FileExists(r, pageId) == pageId \in PageUniverse /\ r[pageId] # NULL
ContentsSha(r, pageId) == ShaOf(r[pageId])

\* GET /git/blobs/<sha>: the blob of that hash, whatever the files are now
BlobExists(sha) == sha # NoSha
BlobContent(sha) == Btoa(sha[2])

\* PUT /contents/<path> {content, sha}: "ok", or the status of the error
StorePut(r, pageId, sha) ==
    IF pageId \notin PageUniverse THEN "422"
    ELSE IF r[pageId] = NULL THEN (IF sha = NoSha THEN "ok" ELSE "422")
    ELSE IF sha = NoSha THEN "422"
    ELSE IF sha = ShaOf(r[pageId]) THEN "ok"
    ELSE "409"

\* DELETE /contents/<path> {sha}: "ok", or the status of the error
StoreDelete(r, pageId, sha) ==
    IF pageId \notin PageUniverse \/ r[pageId] = NULL THEN "404"
    ELSE IF sha = ShaOf(r[pageId]) THEN "ok"
    ELSE "409"

\* GET /git/trees/<sha>?recursive=1: tree.tree
RECURSIVE SetToSeq(_)
SetToSeq(S) ==
    IF S = {} THEN <<>>
    ELSE LET x == CHOOSE y \in S : TRUE IN <<x>> \o SetToSeq(S \ {x})

RemoteListing(r) ==
    SetToSeq({[path |-> <<CONTENT_PATH>> \o id, ext |-> "md",
               sha |-> ShaOf(r[id])] : id \in {p \in PageUniverse : r[p] # NULL}})

(***************************************************************************)
(* Drafts and edit mode                                                    *)
(***************************************************************************)

saveDraft(c) ==
    IF ~c.isEditMode \/ c.currentPage = NoPage THEN c
    ELSE [c EXCEPT !.pageDrafts[c.currentPage] =
                        [content |-> c.editor, baseSha |-> c.editStartSha]]

loadDraft(c, pageId) ==
    IF pageId \in DOMAIN c.pageDrafts THEN c.pageDrafts[pageId] ELSE NoDraft

\* (a clearDraft that removes the item with all the drafts)
clearDraftDroppingAll(c, pageId) ==
    [c EXCEPT !.pageDrafts = [p \in DOMAIN @ |-> NoDraft]]

clearDraft(c, pageId) ==
    IF pageId \in DOMAIN c.pageDrafts
    THEN [c EXCEPT !.pageDrafts[pageId] = NoDraft]
    ELSE c

closeEditMode(c) ==
    [c EXCEPT !.status = "", !.isEditMode = FALSE, !.isNewPage = FALSE,
              !.editStartSha = NoSha]

(***************************************************************************)
(* syncCurrentPageWithRemote                                               *)
(***************************************************************************)

\* if (!currentPage || !wikiData || !githubToken) return null
SyncStarts(c) ==
    /\ c.currentPage # NoPage
    /\ ~c.wikiData.isNull
    /\ c.githubToken # NULL

\* The hash check proper: what follows the response of the GET (remoteSha is
\* remoteData.sha).  A TypeError (wikiData is null, or currentPage is no page
\* of it) is caught and changes nothing.
SyncWarns(c, remoteSha) ==
    /\ c.lastKnownRemoteSha[c.currentPage] # remoteSha
    /\ c.wikiData.pagesById[c.currentPage].sha # remoteSha

\* (a hash check that drops the body it has found out of date)
SyncApplyDroppingBody(c, remoteSha) ==
    IF ~HasPage(c, c.currentPage) THEN c
    ELSE IF SyncWarns(c, remoteSha)
    THEN LET c1 == [c EXCEPT
                       !.lastKnownRemoteSha[c.currentPage] = remoteSha,
                       !.status = IF c.isEditMode THEN "remote-updated-editing"
                                  ELSE "remote-updated",
                       !.wikiData.pagesById[c.currentPage].sha = remoteSha,
                       !.wikiData.pagesById[c.currentPage].markdown = NULL,
                       !.wikiData.pagesById[c.currentPage].loaded = FALSE]
         IN  [c1 EXCEPT !.wikiDataCache = Stored(c1.wikiData)]
    ELSE c

SyncApply(c, remoteSha) ==
    IF ~HasPage(c, c.currentPage) THEN c
    ELSE IF SyncWarns(c, remoteSha)
    THEN LET c1 == [c EXCEPT
                       !.lastKnownRemoteSha[c.currentPage] = remoteSha,
                       !.status = IF c.isEditMode THEN "remote-updated-editing"
                                  ELSE "remote-updated",
                       !.wikiData.pagesById[c.currentPage].sha = remoteSha]
         IN  [c1 EXCEPT !.wikiDataCache = Stored(c1.wikiData)]
    ELSE c

(***************************************************************************)
(* enterEditMode                                                           *)
(***************************************************************************)

\* draft.content || draft, as the editor shows it
DraftContent(draft) ==
    IF draft.content = "" THEN OBJECT_TEXT ELSE draft.content

\* editStartSha = page.sha and what follows it, up to isEditMode = true
enterEditRest(c, page, draft) ==
    LET c1 == [c EXCEPT !.editStartSha = page.sha]
        c2 == IF draft # NoDraft /\ draft.baseSha # NoSha
                 /\ draft.baseSha # page.sha
              THEN [c1 EXCEPT !.status = "draft-conflict"]
              ELSE c1
        c3 == IF draft = NoDraft
              THEN [c2 EXCEPT
                       !.originalMarkdown = page.markdown,
                       !.editor = IF page.markdown = NULL THEN ""
                                  ELSE page.markdown]
              ELSE [c2 EXCEPT !.editor = DraftContent(draft)]
    IN  [c3 EXCEPT !.isEditMode = TRUE]

\* await syncCurrentPageWithRemote(), from enterEditMode: the GET is for
\* currentPage as it is now
enterEditSync(c, t) ==
    IF SyncStarts(c)
    THEN AddTask(c, [t EXCEPT !.pc = "sync", !.sha = NoSha,
                              !.path = c.currentPage])
    ELSE enterEditRest(c, PageRef(c, t), t.draft)

\* enterEditMode(draftContent, draftObj); draft is NoDraft without arguments
enterEditMode(c, draft) ==
    IF ~HasPage(c, c.currentPage) THEN c
    ELSE LET page == c.wikiData.pagesById[c.currentPage]
             t == [NewTask EXCEPT !.kind = "edit", !.page = c.currentPage,
                                  !.draft = draft]
         IN  IF ~page.loaded /\ draft = NoDraft
             THEN AddTask(c, [t EXCEPT !.pc = "fetch", !.sha = page.sha])
             ELSE enterEditSync(c, t)

(***************************************************************************)
(* loadPage                                                                *)
(***************************************************************************)

\* updateMoveButtons: the display of #move-button and #delete-button
CanMoveOrDelete(c) ==
    /\ c.currentPage # HOME
    /\ c.wikiData.pagesById[c.currentPage].children = <<>>

updateMoveButtons(c) ==
    IF ~HasPage(c, c.currentPage)
    THEN [c EXCEPT !.moveDisplay = FALSE, !.deleteDisplay = FALSE]
    ELSE IF c.isMoveMode
    THEN [c EXCEPT !.moveDisplay = c.currentPage # c.pageToMove,
                   !.deleteDisplay = FALSE]
    ELSE [c EXCEPT !.moveDisplay = CanMoveOrDelete(c),
                   !.deleteDisplay = CanMoveOrDelete(c)]

\* loadPage from md.render(page.markdown) on; page is loadPage's `page`
loadPageRest(c, pageId, page, skipHistory) ==
    IF page.markdown = NULL \/ c.wikiData.isNull THEN c
    ELSE LET c1 == updateMoveButtons(
                      [c EXCEPT !.content = page.markdown,
                                !.sessionStorage.currentPage = pageId,
                                !.locationHash =
                                    IF skipHistory THEN @ ELSE pageId])
             draft == loadDraft(c1, pageId)
         IN  IF draft # NoDraft /\ ~c1.isMoveMode
             THEN enterEditMode(c1, draft)
             ELSE c1

\* (a loadPage that closes the edit in progress without keeping its text)
loadPageDroppingEdit(c, pageId, skipHistory) ==
    LET c1 == IF c.isEditMode /\ c.currentPage # NoPage
                 /\ c.currentPage # pageId
              THEN closeEditMode(c)
              ELSE c
    IN  IF ~HasPage(c1, pageId) THEN c1
        ELSE LET page == c1.wikiData.pagesById[pageId]
                 c2 == [c1 EXCEPT !.currentPage = pageId]
             IN  IF ~page.loaded
                 THEN AddTask([c2 EXCEPT !.content = LOADING],
                              [NewTask EXCEPT !.kind = "load", !.pc = "fetch",
                                              !.page = pageId,
                                              !.sha = page.sha,
                                              !.skipHistory = skipHistory])
                 ELSE loadPageRest(c2, pageId, page, skipHistory)

loadPage(c, pageId, skipHistory) ==
    LET c1 == IF c.isEditMode /\ c.currentPage # NoPage
                 /\ c.currentPage # pageId
              THEN closeEditMode(saveDraft(c))
              ELSE c
    IN  IF ~HasPage(c1, pageId) THEN c1
        ELSE LET page == c1.wikiData.pagesById[pageId]
                 c2 == [c1 EXCEPT !.currentPage = pageId]
             IN  IF ~page.loaded
                 THEN AddTask([c2 EXCEPT !.content = LOADING],
                              [NewTask EXCEPT !.kind = "load", !.pc = "fetch",
                                              !.page = pageId,
                                              !.sha = page.sha,
                                              !.skipHistory = skipHistory])
                 ELSE loadPageRest(c2, pageId, page, skipHistory)

\* fetchPageContent after the response of its GET: the body is stored in the
\* page object and the snapshot is written.  Gives the client and the object.
FetchedObj(obj, blob) ==
    [obj EXCEPT !.markdown = Atob(blob), !.loaded = TRUE]

fetchStore(c, t, obj) ==
    LET c1 == IF t.stale THEN c
              ELSE [c EXCEPT !.wikiData.pagesById[t.page] = obj]
    IN  [c1 EXCEPT !.wikiDataCache = Stored(c1.wikiData)]

(***************************************************************************)
(* saveEdit                                                                *)
(***************************************************************************)

\* newContent.trim(): of the texts of the model, only the whitespace-only
\* one changes
trim(text) == IF text = WHITESPACE THEN "" ELSE text

\* (a test for the empty text that does not trim)
IsBlankUntrimmed(text) == text = ""

\* !newContent.trim()
IsBlank(text) == trim(text) = ""

\* editStartSha && editStartSha !== page.sha && !isNewPage
AsksOverwrite(c) ==
    /\ c.editStartSha # NoSha
    /\ c.editStartSha # c.wikiData.pagesById[c.currentPage].sha
    /\ ~c.isNewPage

\* the catch block of saveEdit
saveFailed(c, message) ==
    [c EXCEPT !.status = message, !.saveDisabled = FALSE]

\* saveEdit from its try block to its first request
saveStart(c, confirmed) ==
    LET c1 == [c EXCEPT !.saveDisabled = TRUE, !.status = "saving"]
        t == [NewTask EXCEPT !.kind = "save", !.text = c.editor,
                             !.editStart = c.editStartSha,
                             !.confirmed = confirmed]
    IN  IF c.isNewPage
        THEN AddTask(c1, [t EXCEPT
                            !.pc = "unique", !.parent = c.currentPage,
                            !.path = c.currentPage
                                     \o <<generateFilename(c.editor)>>])
        ELSE IF c.editor = c.originalMarkdown
        THEN [c1 EXCEPT !.status = "no-changes", !.saveDisabled = FALSE]
        ELSE AddTask(c1, [t EXCEPT !.pc = "get", !.path = c.currentPage])

\* saveEdit, with the user's answer to the confirmation, should it be asked
saveEdit(c, accept) ==
    IF IsBlank(c.editor) THEN [c EXCEPT !.status = "empty"]
    ELSE IF c.wikiData.isNull THEN c
    ELSE IF c.editStartSha # NoSha /\ ~HasPage(c, c.currentPage) THEN c
    ELSE IF c.editStartSha # NoSha /\ AsksOverwrite(c)
    THEN (IF accept THEN saveStart(c, TRUE) ELSE c)
    ELSE saveStart(c, FALSE)

\* originalMarkdown = newContent and what follows it, to the setTimeout
closeTimerArmed(c, text) ==
    LET c1 == clearDraft([c EXCEPT !.originalMarkdown = text], c.currentPage)
    IN  [c1 EXCEPT !.isNewPage = FALSE, !.status = "saved",
                   !.closeTimers = @ + 1]

\* page.markdown = newContent; page.loaded = true; page.sha = null
PatchedPage(page, text) ==
    [page EXCEPT !.markdown = text, !.loaded = TRUE, !.sha = NoSha]

\* saveEdit after loadWikiFromGitHub has answered (fresh is its result), for
\* the save of text to the file of page `path`
saveReloaded(c, fresh, path, text) ==
    LET c1 == ReplaceWiki(c, fresh)
        c2 == [c1 EXCEPT !.wikiDataCache = Stored(fresh)]
        c3 == IF c2.isNewPage THEN [c2 EXCEPT !.currentPage = path] ELSE c2
    IN  IF ~HasPage(c3, c3.currentPage)
        THEN (IF c2.isNewPage
              THEN closeTimerArmed(c3, text)
              ELSE saveFailed(c3, "save-failed"))
        ELSE closeTimerArmed(
                [c3 EXCEPT !.wikiData.pagesById[c3.currentPage] =
                               PatchedPage(@, text)], text)

(***************************************************************************)
(* login                                                                   *)
(***************************************************************************)

\* freshData.pages.forEach(...): a body of the snapshot is reused when its
\* hash is the listing's
mergeCached(fresh, cached) ==
    [fresh EXCEPT !.pagesById =
        [id \in DOMAIN fresh.pagesById |->
            IF /\ id \in DOMAIN cached.pagesById
               /\ cached.pagesById[id].loaded
               /\ cached.pagesById[id].sha = fresh.pagesById[id].sha
            THEN [fresh.pagesById[id] EXCEPT
                     !.markdown = cached.pagesById[id].markdown,
                     !.loaded = TRUE]
            ELSE fresh.pagesById[id]]]

\* login with a valid token, from the response of the listing on; JSON.parse
\* of a stored "null" gives null, and cached.pages throws
login(c, fresh) ==
    IF c.wikiDataCache.present /\ c.wikiDataCache.data.isNull
    THEN [c EXCEPT !.githubToken = NULL]
    ELSE LET data == IF c.wikiDataCache.present
                     THEN mergeCached(fresh, c.wikiDataCache.data)
                     ELSE fresh
             c1 == ReplaceWiki([c EXCEPT !.githubToken = "token"], data)
             c2 == [c1 EXCEPT !.wikiDataCache = Stored(data),
                              !.sessionStorage.githubToken = "token"]
             lastPage == IF c.sessionStorage.currentPage # NoPage
                         THEN c.sessionStorage.currentPage
                         ELSE HOME
             initialPageId == IF c.locationHash # NoPage
                              THEN c.locationHash
                              ELSE lastPage
         IN  updateMoveButtons(
                 IF HasPage(c2, initialPageId)
                 THEN loadPage([c2 EXCEPT !.locationHash = initialPageId],
                               initialPageId, TRUE)
                 ELSE loadPage(c2, lastPage, TRUE))

(***************************************************************************)
(* Initial state                                                           *)
(***************************************************************************)

InitStore ==
    /\ remote = [p \in PageUniverse |->
                    IF p = HOME THEN "t0" ELSE IF p = PAGE_A THEN "t1" ELSE NULL]
    /\ remoteBy = [p \in PageUniverse |-> "other"]
    /\ otherWrites = 0

InitClient ==
    /\ githubToken = NULL
    /\ wikiData = NullWiki
    /\ currentPage = NoPage
    /\ originalMarkdown = ""
    /\ isEditMode = FALSE
    /\ isNewPage = FALSE
    /\ autoSaveTimer = NoTimer
    /\ editStartSha = NoSha
    /\ lastKnownRemoteSha = [p \in PageUniverse |-> NoSha]
    /\ editor = ""
    /\ status = ""
    /\ saveDisabled = FALSE
    /\ content = ""
    /\ pageDrafts = [p \in PageUniverse |-> NoDraft]
    /\ wikiDataCache = NoCache
    /\ tasks = {}
    /\ closeTimers = 0
    /\ isMoveMode = FALSE
    /\ pageToMove = NoPage
    /\ sessionStorage = NoSession
    /\ locationHash = NoPage
    /\ moveDisplay = FALSE
    /\ deleteDisplay = FALSE
    /\ userEvents = 0
    /\ shownAgain = 0
    /\ opEvents = 0
    /\ idleHours = 0

InitTree ==
    /\ listing = <<>>
    /\ wasOrphan = {}

(***************************************************************************)
(* The camping page (camping.tsx): the recreation areas, their order in    *)
(* the list, and the favorites file                                        *)
(***************************************************************************)

\* Calls of saveFavorites waiting for a response at once.
MaxCampSaves == 1

\* if (newFavorites.favorites.length >= 5) return;
FAVORITE_LIMIT == 5

\* favorites: array of rec area IDs (max 4)
PLANNED_MAX_FAVORITES == 4

NoArea == "null"

\* recAreas, in the order of rec-areas.json: an area with free weekends, one
\* whose scan failed, one scanned without a free weekend, one never scanned,
\* and two more with free weekends and without a scan.
RecAreaIds == <<"r1", "r2", "r3", "r4", "r5", "r6">>

RecAreas ==
    [id \in SeqRange(RecAreaIds) |->
        [weekendDates |-> IF id \in {"r1", "r5"} THEN <<"sat">> ELSE <<>>,
         scanError |-> id = "r2",
         lastScanned |-> IF id \in {"r1", "r2", "r3", "r5"} THEN "day" ELSE NULL,
         distanceMiles |-> CASE id = "r1" -> 30 [] id = "r2" -> 20
                             [] id = "r3" -> 50 [] id = "r4" -> 40
                             [] id = "r5" -> 10 [] OTHER -> 60]]

\* favorites.disabled.includes(id) || (favorites.autoDisabled || []).includes(id)
IsDisabledArea(fav, id) == id \in fav.disabled \/ id \in fav.autoDisabled

\* getPriority(isFav, hasAvail, hasError, hasNoAvail, isDisabled), with its
\* arguments as the comparator computes them for one area
getPriority(fav, id) ==
    LET area == RecAreas[id]
        isFav == id \in SeqRange(fav.favorites)
        isDisabled == IsDisabledArea(fav, id)
        hasAvail == Len(area.weekendDates) > 0
        hasError == area.scanError /\ ~isDisabled
        hasNoAvail == /\ area.lastScanned # NULL
                      /\ ~hasAvail /\ ~hasError /\ ~isDisabled
    IN  IF isFav THEN 0
        ELSE IF hasAvail THEN 1
        ELSE IF hasError THEN 2
        ELSE IF hasNoAvail THEN 3
        ELSE IF isDisabled THEN 5
        ELSE 4

\* the comparator of sortedAreas: negative when areaA goes first
CompareAreas(fav, areaA, areaB) ==
    IF getPriority(fav, areaA) # getPriority(fav, areaB)
    THEN getPriority(fav, areaA) - getPriority(fav, areaB)
    ELSE RecAreas[areaA].distanceMiles - RecAreas[areaB].distanceMiles

RECURSIVE InsertArea(_, _, _)
InsertArea(fav, id, sorted) ==
    IF sorted = <<>> THEN <<id>>
    ELSE IF CompareAreas(fav, Head(sorted), id) > 0
         THEN <<id>> \o sorted
         ELSE <<Head(sorted)>> \o InsertArea(fav, id, Tail(sorted))

\* [...filteredAreas].sort(...), with no search and no distance filter: a
\* stable sort of recAreas
RECURSIVE SortAreas(_, _)
SortAreas(fav, ids) ==
    IF ids = <<>> THEN <<>>
    ELSE InsertArea(fav, ids[Len(ids)],
                    SortAreas(fav, SubSeq(ids, 1, Len(ids) - 1)))

sortedAreas(fav) == SortAreas(fav, RecAreaIds)

\* favorites.json as loadData finds it: no favorite, nothing disabled by
\* hand, and the never-scanned area r6 disabled by the scanner.  disabled
\* and autoDisabled are arrays used for membership only.
InitCamping ==
    /\ favoritesFile = [favorites |-> <<>>, disabled |-> {},
                        autoDisabled |-> {"r6"}]
    /\ favorites = favoritesFile
    /\ favoritesSha = ShaOf(favoritesFile)
    /\ savingAreaId = NoArea
    /\ campSaves = {}

InitGhost == draftCleared = {} /\ changedBeforeSave = {}

Init == InitStore /\ InitClient /\ InitTree /\ InitGhost /\ InitCamping

(***************************************************************************)
(* Events of the user and of the document                                  *)
(***************************************************************************)

\* no enterEditMode is waiting for a response (for the claims)
NoEditPending == \A t \in tasks : t.kind # "edit"

\* #wiki-container is shown
WikiShown == githubToken # NULL /\ ~wikiData.isNull

NetOutcomes == {"ok"}

\* #login-button
Login ==
    /\ UserEvent
    /\ githubToken = NULL
    /\ Commit(login(Client, BuildWiki(RemoteListing(remote))))
    /\ UNCHANGED <<storeVars, treeVars, campVars, ghostVars>>

\* a link of the sidebar or of the content, a search result
Navigate(pageId) ==
    /\ UserEvent
    /\ WikiShown
    /\ pageId \in DOMAIN wikiData.pagesById
    /\ Commit(loadPage(Client, pageId, FALSE))
    /\ UNCHANGED <<storeVars, treeVars, campVars, ghostVars>>

\* #edit-button outside edit mode
EditButton ==
    /\ UserEvent
    /\ WikiShown
    /\ ~isMoveMode
    /\ ~isEditMode
    /\ Commit(enterEditMode(Client, NoDraft))
    /\ draftCleared' = draftCleared \ {currentPage}
    /\ UNCHANGED <<storeVars, treeVars, campVars, changedBeforeSave>>

cancelEdit(c, accept) ==
    IF c.editor # c.originalMarkdown /\ ~accept THEN c
    ELSE closeEditMode(IF c.currentPage # NoPage /\ ~c.isNewPage
                       THEN clearDraft(c, c.currentPage)
                       ELSE c)

\* #cancel-edit-button, and #edit-button in edit mode
CancelEdit(accept) ==
    /\ UserEvent
    /\ WikiShown
    /\ isEditMode
    /\ Commit(cancelEdit(Client, accept))
    /\ draftCleared' = IF /\ ~isEditMode' /\ currentPage # NoPage
                          /\ ~isNewPage /\ NoEditPending
                       THEN draftCleared \cup {currentPage}
                       ELSE draftCleared
    /\ UNCHANGED <<storeVars, treeVars, campVars, changedBeforeSave>>

startNewPage(c) ==
    [c EXCEPT !.isNewPage = TRUE, !.originalMarkdown = "",
              !.editor = TEMPLATE, !.isEditMode = TRUE]

\* #new-page-button
StartNewPage ==
    /\ UserEvent
    /\ WikiShown
    /\ Commit(startNewPage(Client))
    /\ draftCleared' = draftCleared \ {currentPage}
    /\ UNCHANGED <<storeVars, treeVars, campVars, changedBeforeSave>>

\* the input listener of #markdown-editor: the user's text, and the
\* debounced saveDraft, due 2000 ms later and so after every pending
\* 1500 ms timer
TypeInput(text) ==
    /\ UserEvent
    /\ WikiShown
    /\ isEditMode
    /\ text # editor
    /\ Commit([Client EXCEPT
                  !.editor = text,
                  !.autoSaveTimer = [armed |-> TRUE, after |-> closeTimers]])
    /\ draftCleared' = draftCleared \ {currentPage}
    /\ UNCHANGED <<storeVars, treeVars, campVars, changedBeforeSave>>

\* the callback of the input listener's setTimeout
AutoSaveFire ==
    /\ UNCHANGED <<userEvents, shownAgain, opEvents>>
    /\ autoSaveTimer.armed
    /\ autoSaveTimer.after = 0
    /\ Commit(saveDraft([Client EXCEPT !.autoSaveTimer = NoTimer]))
    /\ UNCHANGED <<storeVars, treeVars, campVars, ghostVars>>

\* saveEdit is called: whether the file of the page has the hash the edit
\* began on (for the claims)
SaveCalledOn(changed) ==
    IF currentPage \notin PageUniverse THEN changed
    ELSE IF editStartSha # NoSha /\ editStartSha # ShaOf(remote[currentPage])
    THEN changed \cup {currentPage}
    ELSE changed \ {currentPage}

\* #save-button
SaveButton(accept) ==
    /\ UserEvent
    /\ WikiShown
    /\ isEditMode
    /\ ~saveDisabled
    /\ Commit(saveEdit(Client, accept))
    /\ changedBeforeSave' = SaveCalledOn(changedBeforeSave)
    /\ UNCHANGED <<storeVars, treeVars, campVars, draftCleared>>

\* Ctrl+S / Cmd+S in #markdown-editor
SaveShortcut(accept) ==
    /\ UserEvent
    /\ WikiShown
    /\ isEditMode
    /\ Commit(saveEdit(Client, accept))
    /\ changedBeforeSave' = SaveCalledOn(changedBeforeSave)
    /\ UNCHANGED <<storeVars, treeVars, campVars, draftCleared>>

\* visibilitychange, the document shown again
VisibilityChange ==
    /\ shownAgain < MaxShownAgain
    /\ shownAgain' = shownAgain + 1
    /\ UNCHANGED <<userEvents, opEvents>>
    /\ ~wikiData.isNull
    /\ currentPage # NoPage
    /\ SyncStarts(Client)
    /\ Commit(AddTask(Client, [NewTask EXCEPT !.kind = "sync", !.pc = "sync",
                                             !.path = currentPage]))
    /\ UNCHANGED <<storeVars, treeVars, campVars, ghostVars>>

\* the callback of saveEdit's setTimeout(..., 1500)
closeTimerFired(c) ==
    LET c1 == closeEditMode(
                [c EXCEPT !.closeTimers = @ - 1,
                          !.autoSaveTimer.after =
                              IF @ > 0 THEN @ - 1 ELSE 0])
    IN  IF c1.wikiData.isNull THEN c1
        ELSE [loadPage(c1, c1.currentPage, FALSE) EXCEPT
                 !.saveDisabled = FALSE]

CloseTimerFire ==
    /\ UNCHANGED <<userEvents, shownAgain, opEvents>>
    /\ closeTimers > 0
    /\ Commit(closeTimerFired(Client))
    /\ UNCHANGED <<storeVars, treeVars, campVars, ghostVars>>

\* another client of the store changes the body of an existing page
OtherWrite(pageId, text) ==
    /\ otherWrites < MaxOtherWrites
    /\ remote[pageId] # NULL
    /\ remote[pageId] # text
    /\ remote' = [remote EXCEPT ![pageId] = text]
    /\ remoteBy' = [remoteBy EXCEPT ![pageId] = "other"]
    /\ otherWrites' = otherWrites + 1
    /\ UNCHANGED <<clientVars, treeVars, campVars, ghostVars>>

(***************************************************************************)
(* Responses                                                               *)
(***************************************************************************)

\* syncCurrentPageWithRemote called by the visibilitychange listener: the
\* response of its GET
syncResponded(c, t, net, r) ==
    IF net = "ok" /\ FileExists(r, t.path)
    THEN SyncApply(DropTask(c, t), ContentsSha(r, t.path))
    ELSE DropTask(c, t)

SyncResponse(t, net) ==
    /\ UNCHANGED <<userEvents, shownAgain, opEvents>>
    /\ t.kind = "sync"
    /\ Answers(t, net)
    /\ Commit(syncResponded(Client, t, net, remote))
    /\ UNCHANGED <<storeVars, treeVars, campVars, ghostVars>>

\* loadPage: the response of fetchPageContent's GET, then updateSearchIndex
\* and the rest of loadPage
loadFetched(c, t, net) ==
    LET c0 == DropTask(c, t)
        got == net = "ok" /\ BlobExists(t.sha)
        obj == IF got THEN FetchedObj(PageRef(c0, t), BlobContent(t.sha))
               ELSE PageRef(c0, t)
        c1 == IF got THEN fetchStore(c0, t, obj) ELSE c0
    IN  loadPageRest(c1, t.page, obj, t.skipHistory)

LoadFetchResponse(t, net) ==
    /\ UNCHANGED <<userEvents, shownAgain, opEvents>>
    /\ t.kind = "load"
    /\ Answers(t, net)
    /\ Commit(loadFetched(Client, t, net))
    /\ UNCHANGED <<storeVars, treeVars, campVars, ghostVars>>

\* enterEditMode: the response of fetchPageContent's GET
editFetched(c, t, net) ==
    LET c0 == DropTask(c, t)
        got == net = "ok" /\ BlobExists(t.sha)
        obj == IF got THEN FetchedObj(PageRef(c0, t), BlobContent(t.sha))
               ELSE PageRef(c0, t)
        c1 == IF got THEN fetchStore(c0, t, obj) ELSE c0
    IN  enterEditSync(c1, IF t.stale THEN [t EXCEPT !.obj = obj] ELSE t)

EditFetchResponse(t, net) ==
    /\ UNCHANGED <<userEvents, shownAgain, opEvents>>
    /\ t.kind = "edit" /\ t.pc = "fetch"
    /\ Answers(t, net)
    /\ Commit(editFetched(Client, t, net))
    /\ UNCHANGED <<storeVars, treeVars, campVars, ghostVars>>

\* enterEditMode: the response of syncCurrentPageWithRemote's GET
editSynced(c, t, net, r) ==
    LET c1 == syncResponded(c, t, net, r)
    IN  enterEditRest(c1, PageRef(c1, t), t.draft)

EditSyncResponse(t, net) ==
    /\ UNCHANGED <<userEvents, shownAgain, opEvents>>
    /\ t.kind = "edit" /\ t.pc = "sync"
    /\ Answers(t, net)
    /\ Commit(editSynced(Client, t, net, remote))
    /\ UNCHANGED <<storeVars, treeVars, campVars, ghostVars>>

\* saveEdit of a new page: the response of checkFilenameExists's GET (an
\* error means the name is free), then the PUT once a name is free
saveNamed(c, t, net, r) ==
    LET c0 == DropTask(c, t)
        base == generateFilename(t.text)
    IN  IF net = "ok" /\ FileExists(r, t.path)
        THEN AddTask(c0, [t EXCEPT
                            !.counter = @ + 1,
                            !.path = t.parent \o <<Suffixed(base, t.counter + 1)>>])
        ELSE IF BtoaThrows(t.text) THEN saveFailed(c0, "save-failed")
        ELSE AddTask(c0, [t EXCEPT
                            !.pc = "put", !.putSha = NoSha,
                            !.path = c.currentPage
                                     \o <<Suffixed(base, t.counter)>>])

SaveUniqueResponse(t, net) ==
    /\ UNCHANGED <<userEvents, shownAgain, opEvents>>
    /\ t.kind = "save" /\ t.pc = "unique"
    /\ Answers(t, net)
    /\ \A u \in saveNamed(Client, t, net, remote).tasks \ tasks :
            u.path \in PageUniverse
    /\ Commit(saveNamed(Client, t, net, remote))
    /\ UNCHANGED <<storeVars, treeVars, campVars, ghostVars>>

\* saveEdit of an existing page: the response of the GET of the file
saveGot(c, t, net, r) ==
    IF net = "ok" /\ FileExists(r, t.path) /\ BtoaThrows(t.text)
    THEN saveFailed(DropTask(c, t), "save-failed")
    ELSE IF net = "ok" /\ FileExists(r, t.path)
    THEN AddTask(DropTask(c, t),
                 [t EXCEPT !.pc = "put", !.putSha = ContentsSha(r, t.path)])
    ELSE saveFailed(DropTask(c, t), "save-failed")

SaveGetResponse(t, net) ==
    /\ UNCHANGED <<userEvents, shownAgain, opEvents>>
    /\ t.kind = "save" /\ t.pc = "get"
    /\ Answers(t, net)
    /\ Commit(saveGot(Client, t, net, remote))
    /\ UNCHANGED <<storeVars, treeVars, campVars, ghostVars>>

\* the outcome of saveEdit's PUT
PutOutcome(t, net, r) ==
    IF net = "ok" THEN StorePut(r, t.path, t.putSha) ELSE "fail"

\* (a save that answers a conflict by writing again over the new hash)
savePutRetrying(c, t, outcome) ==
    IF outcome = "ok"
    THEN AddTask([DropTask(c, t) EXCEPT !.wikiDataCache = NoCache],
                 [t EXCEPT !.pc = "reload"])
    ELSE IF outcome = "409"
    THEN AddTask(DropTask(c, t), [t EXCEPT !.pc = "get"])
    ELSE saveFailed(DropTask(c, t), "save-failed")

\* saveEdit: the response of the PUT
savePut(c, t, outcome) ==
    IF outcome = "ok"
    THEN AddTask([DropTask(c, t) EXCEPT !.wikiDataCache = NoCache],
                 [t EXCEPT !.pc = "reload"])
    ELSE saveFailed(DropTask(c, t),
                    IF outcome = "409" THEN "save-conflict" ELSE "save-failed")

SavePutResponse(t, net) ==
    /\ UNCHANGED <<userEvents, shownAgain, opEvents>>
    /\ t.kind = "save" /\ t.pc = "put"
    /\ Answers(t, net)
    /\ Commit(savePut(Client, t, PutOutcome(t, net, remote)))
    /\ IF PutOutcome(t, net, remote) = "ok"
       THEN /\ remote' = [remote EXCEPT ![t.path] = Atob(Btoa(t.text))]
            /\ remoteBy' = [remoteBy EXCEPT ![t.path] = "me"]
       ELSE UNCHANGED <<remote, remoteBy>>
    /\ UNCHANGED <<otherWrites, treeVars, campVars, ghostVars>>

\* saveEdit: the response of loadWikiFromGitHub
saveListed(c, t, net, r) ==
    IF net = "ok"
    THEN saveReloaded(DropTask(c, t), BuildWiki(RemoteListing(r)), t.path, t.text)
    ELSE saveFailed(DropTask(c, t), "save-failed")

SaveReloadResponse(t, net) ==
    /\ UNCHANGED <<userEvents, shownAgain, opEvents>>
    /\ t.kind = "save" /\ t.pc = "reload"
    /\ Answers(t, net)
    /\ closeTimers < MaxCloseTimers
    /\ Commit(saveListed(Client, t, net, remote))
    /\ draftCleared' = IF status' = "saved" /\ NoEditPending
                       THEN draftCleared \cup {currentPage'}
                       ELSE draftCleared
    /\ UNCHANGED <<storeVars, treeVars, campVars, changedBeforeSave>>

(***************************************************************************)
(* The specification of the session                                        *)
(***************************************************************************)

Next ==
    \/ Login
    \/ \E pageId \in PageUniverse : Navigate(pageId)
    \/ EditButton
    \/ \E accept \in BOOLEAN : CancelEdit(accept)
    \/ StartNewPage
    \/ \E text \in TypedTexts : TypeInput(text)
    \/ AutoSaveFire
    \/ \E accept \in BOOLEAN : SaveButton(accept)
    \/ \E accept \in BOOLEAN : SaveShortcut(accept)
    \/ VisibilityChange
    \/ CloseTimerFire
    \/ \E pageId \in PageUniverse, text \in OtherTexts : OtherWrite(pageId, text)
    \/ \E t \in tasks, net \in NetOutcomes : SyncResponse(t, net)
    \/ \E t \in tasks, net \in NetOutcomes : LoadFetchResponse(t, net)
    \/ \E t \in tasks, net \in NetOutcomes : EditFetchResponse(t, net)
    \/ \E t \in tasks, net \in NetOutcomes : EditSyncResponse(t, net)
    \/ \E t \in tasks, net \in NetOutcomes : SaveUniqueResponse(t, net)
    \/ \E t \in tasks, net \in NetOutcomes : SaveGetResponse(t, net)
    \/ \E t \in tasks, net \in NetOutcomes : SavePutResponse(t, net)
    \/ \E t \in tasks, net \in NetOutcomes : SaveReloadResponse(t, net)

Spec == Init /\ [][Next]_vars

(***************************************************************************)
(* Claims about saving                                                     *)
(***************************************************************************)

\* The page in memory, when there is one.
KnownSha(pageId) ==
    IF ~wikiData.isNull /\ pageId \in DOMAIN wikiData.pagesById
    THEN wikiData.pagesById[pageId].sha
    ELSE NoSha

\* A save of a text the user typed into an existing page, whose PUT is in
\* flight, begun on a hash H1 that was no longer the hash of the file when
\* saveEdit was called.
SavesOverChange(t) ==
    /\ t.kind = "save" /\ t.pc = "put"
    /\ t.text \in UserTexts
    /\ t.putSha # NoSha
    /\ t.editStart # NoSha
    /\ t.editStart # ShaOf(remote[t.path])
    /\ t.path \in changedBeforeSave

\* C1: when the hash of a page has changed from H1, the hash the client held
\* when the edit began, to H2 before the save, the PUT carries H1 as its
\* precondition and the store rejects it: the file stays what it is, the
\* status is the conflict warning and edit mode is not left.
C1_ConflictRejected ==
    [][\A t \in tasks :
          (SavesOverChange(t) /\ SavePutResponse(t, "ok"))
          => /\ t.putSha = t.editStart
             /\ remote' = remote
             /\ status' = "save-conflict"
             /\ isEditMode' = isEditMode]_vars

\* C2: saveEdit never replaces a version of a page that another client wrote
\* after the edit began, unless the user was asked to confirm the overwrite
\* and accepted.
C2_NoSilentOverwrite ==
    [][\A t \in tasks :
          (/\ SavesOverChange(t)
           /\ SavePutResponse(t, "ok")
           /\ remoteBy[t.path] = "other"
           /\ remote'[t.path] # remote[t.path])
          => t.confirmed]_vars

\* C3: saveEdit issues the PUT for an existing page only when editStartSha is
\* the hash that the client holds for the page, or the user has accepted the
\* confirmation; and when the user declines, the store, the editor, the
\* drafts and edit mode stay what they are.
C3_WriteNeedsConfirmation ==
    [][/\ \A t \in tasks :
            (/\ SaveGetResponse(t, "ok")
             /\ t.text \in UserTexts
             /\ \E u \in tasks' : u.kind = "save" /\ u.pc = "put"
                                   /\ u.path = t.path /\ u.text = t.text
             /\ t.editStart # NoSha
             /\ HasPage(Client, t.path)
             /\ t.editStart # KnownSha(t.path))
            => t.confirmed
       /\ ((SaveButton(FALSE) \/ SaveShortcut(FALSE))
              /\ ~IsBlank(editor) /\ HasPage(Client, currentPage)
              /\ AsksOverwrite(Client))
            => UNCHANGED <<remote, editor, pageDrafts, isEditMode, tasks>>]_vars

\* C4: once the session has settled (no request in flight, no timer
\* pending), no page whose edit was saved or discarded has a draft.
Settled ==
    /\ tasks = {}
    /\ closeTimers = 0
    /\ ~autoSaveTimer.armed

C4_NoDraftAfterSaveOrDiscard ==
    Settled => \A pageId \in draftCleared : pageDrafts[pageId] = NoDraft

\* C15: saveEdit on an empty or whitespace-only editor sends no request and
\* changes nothing of the session but the status message.
C15_BlankSaveBlocked ==
    [][\A accept \in BOOLEAN :
          ((SaveButton(accept) \/ SaveShortcut(accept))
           /\ editor \in {"", WHITESPACE})
          => /\ status' = "empty"
             /\ UNCHANGED <<storeVars, githubToken, wikiData, currentPage,
                            originalMarkdown, isEditMode, isNewPage,
                            autoSaveTimer, editStartSha, lastKnownRemoteSha,
                            editor, saveDisabled, content, pageDrafts,
                            wikiDataCache, tasks, closeTimers, isMoveMode,
                            pageToMove, sessionStorage, locationHash,
                            moveDisplay, deleteDisplay>>]_vars

\* C15's case: a save of a whitespace-only editor was refused.
C15_Witness ==
    /\ status = "empty"
    /\ editor = WHITESPACE
    /\ isEditMode

\* C17: when the user navigates from the edit of page P to another page and
\* the editor differs from the body the edit loaded, the editor's text is
\* stored as P's draft, and nothing is written to the store nor any save
\* begun.
C17_LeavingEditKeepsDraft ==
    [][\A pageId \in PageUniverse :
          (/\ Navigate(pageId)
           /\ isEditMode
           /\ currentPage \in PageUniverse \ {pageId}
           /\ editor # originalMarkdown)
          => /\ pageDrafts'[currentPage] # NoDraft
             /\ pageDrafts'[currentPage].content = editor
             /\ UNCHANGED storeVars
             /\ \A t \in tasks' \ tasks : t.kind # "save"]_vars

\* C17's case: the user's text is the draft of a page that is not the page
\* shown, and that page's file does not hold it.
C17_Witness ==
    \E pageId \in PageUniverse \ {currentPage} :
        /\ currentPage # NoPage
        /\ pageDrafts[pageId] # NoDraft
        /\ pageDrafts[pageId].content \in UserTexts
        /\ remote[pageId] \notin UserTexts
        /\ ~autoSaveTimer.armed
        /\ tasks = {}

\* C19: once a session that has written to the store has settled, and no
\* other client has written, the (page, hash) pairs of the tree in memory are
\* those of the store's listing.
TreePairs(w) == {<<id, w.pagesById[id].sha>> : id \in DOMAIN w.pagesById}
ListingPairs(r) ==
    {<<id, ShaOf(r[id])>> : id \in {p \in PageUniverse : r[p] # NULL}}

C19_TreeEqualsListing ==
    (/\ Settled
     /\ ~wikiData.isNull
     /\ otherWrites = 0
     /\ \E pageId \in PageUniverse : remoteBy[pageId] = "me")
    => TreePairs(wikiData) = ListingPairs(remote)

\* C18: from the success of a save's write until the listing fetched after
\* it has arrived, localStorage holds no snapshot built before the write: a
\* snapshot present then has the written file with the hash of the text
\* written.
C18_NoSnapshotFromBeforeWrite ==
    \A t \in tasks :
        (/\ t.kind = "save"
         /\ t.pc = "reload"
         /\ remoteBy[t.path] = "me"
         /\ remote[t.path] = t.text
         /\ wikiDataCache.present)
        => /\ ~wikiDataCache.data.isNull
           /\ t.path \in DOMAIN wikiDataCache.data.pagesById
           /\ wikiDataCache.data.pagesById[t.path].sha = ShaOf(remote[t.path])

\* C11: when the store answers the PUT of a save with a conflict, saveEdit
\* issues no further request, shows the conflict status, and leaves the
\* store, edit mode, the editor and the drafts what they are, with the save
\* button enabled again.
C11_ConflictIsRetryable ==
    [][\A t \in tasks :
          (SavePutResponse(t, "ok") /\ PutOutcome(t, "ok", remote) = "409")
          => /\ tasks' = tasks \ {t}
             /\ status' = "save-conflict"
             /\ ~saveDisabled'
             /\ UNCHANGED <<remote, isEditMode, editor, pageDrafts,
                            originalMarkdown, currentPage>>]_vars

\* C11's case: a save of the user's text was refused with a conflict, and
\* the user is still editing that text.
C11_Witness ==
    /\ status = "save-conflict"
    /\ isEditMode
    /\ editor \in UserTexts
    /\ ~saveDisabled
    /\ \A t \in tasks : t.kind # "save"

(***************************************************************************)
(* Claims about the requests in flight                                     *)
(***************************************************************************)

\* The page a request in flight was issued for: the body fetch is for the
\* page of loadPage or enterEditMode, the others for the file of their path.
RequestPage(t) == IF t.pc = "fetch" THEN t.page ELSE t.path

\* The response of a body fetch or of a hash check.
CheckOrFetchResponse(t) ==
    \/ SyncResponse(t, "ok")
    \/ LoadFetchResponse(t, "ok")
    \/ EditFetchResponse(t, "ok")
    \/ EditSyncResponse(t, "ok")

\* C5: the response of a body fetch or hash check issued for a page that is
\* no longer the current page changes neither the hash or body in memory of
\* the current page, nor the content shown, nor edit mode.
C5_StaleResponseIgnored ==
    [][\A t \in tasks :
          (/\ CheckOrFetchResponse(t)
           /\ RequestPage(t) # currentPage
           /\ HasPage(Client, currentPage))
          => /\ wikiData'.pagesById[currentPage].sha = KnownSha(currentPage)
             /\ wikiData'.pagesById[currentPage].markdown
                    = wikiData.pagesById[currentPage].markdown
             /\ content' = content
             /\ isEditMode' = isEditMode]_vars

\* C6: no two requests against the same page are in flight at once (the
\* listing that follows a save is a request against no page).
C6_OneRequestPerPage ==
    \A t \in tasks, u \in tasks :
        (t # u /\ t.pc # "reload" /\ u.pc # "reload")
        => RequestPage(t) # RequestPage(u)

\* C7: when enterEditMode, called on an existing page, sets isEditMode, it
\* has set editStartSha to the hash in memory of that page; and editStartSha
\* stays what it is as long as edit mode lasts.
C7_EditStartShaFixed ==
    [][/\ (~isEditMode /\ isEditMode' /\ ~isNewPage')
            => \E t \in tasks :
                  /\ EditSyncResponse(t, "ok")
                  /\ HasPage(Client, t.page)
                  /\ editStartSha' = wikiData'.pagesById[t.page].sha
       /\ (isEditMode /\ isEditMode' /\ ~isNewPage /\ ~isNewPage')
            => editStartSha' = editStartSha]_vars

\* C10: the hash check leaves every page body, the editor, originalMarkdown,
\* the drafts and isEditMode what they are; within enterEditMode, where the
\* editor is filled right after it, it leaves the bodies and the drafts.
BodiesUnchanged ==
    /\ wikiData'.isNull = wikiData.isNull
    /\ DOMAIN wikiData'.pagesById = DOMAIN wikiData.pagesById
    /\ \A id \in DOMAIN wikiData.pagesById :
          /\ wikiData'.pagesById[id].markdown = wikiData.pagesById[id].markdown
          /\ wikiData'.pagesById[id].loaded = wikiData.pagesById[id].loaded

C10_SyncChangesHashesOnly ==
    [][\A t \in tasks :
          /\ SyncResponse(t, "ok")
                => /\ BodiesUnchanged
                   /\ UNCHANGED <<editor, originalMarkdown, pageDrafts,
                                  isEditMode>>
          /\ EditSyncResponse(t, "ok")
                => /\ BodiesUnchanged
                   /\ UNCHANGED pageDrafts]_vars

\* C10's case: the hash check has found the page changed while the user was
\* editing it, with text in the editor that is not saved.
C10_Witness ==
    /\ status = "remote-updated-editing"
    /\ isEditMode
    /\ editor # originalMarkdown
    /\ editor \in UserTexts

(***************************************************************************)
(* Logout, reload, move and delete, and requests that fail                 *)
(***************************************************************************)

\* A click on #move-button or #delete-button, or a wait, within the bound.
OpEvent ==
    /\ opEvents < MaxOpEvents
    /\ opEvents' = opEvents + 1
    /\ UNCHANGED <<userEvents, shownAgain>>

\* What githubAPI can meet: a response, no response or a status that is not
\* ok, and the status of a token that is not accepted.
NetResults == {"ok", "fail", "401"}

logout(c) ==
    [ReplaceWiki(c, NullWiki) EXCEPT
        !.sessionStorage = NoSession,
        !.wikiDataCache = NoCache,
        !.pageDrafts = [p \in PageUniverse |-> NoDraft],
        !.githubToken = NULL,
        !.currentPage = NoPage]

\* #logout-button
Logout ==
    /\ UserEvent
    /\ WikiShown
    /\ Commit(logout(Client))
    /\ UNCHANGED <<storeVars, treeVars, campVars, ghostVars>>

\* The script's state when the document has just been loaded: localStorage,
\* sessionStorage and location.hash are what the document before left.
Reloaded(c) ==
    [githubToken |-> NULL, wikiData |-> NullWiki, currentPage |-> NoPage,
     originalMarkdown |-> "", isEditMode |-> FALSE, isNewPage |-> FALSE,
     autoSaveTimer |-> NoTimer, editStartSha |-> NoSha,
     lastKnownRemoteSha |-> [p \in PageUniverse |-> NoSha], editor |-> "",
     status |-> "", saveDisabled |-> FALSE, content |-> "",
     pageDrafts |-> c.pageDrafts, wikiDataCache |-> c.wikiDataCache,
     tasks |-> {}, closeTimers |-> 0, isMoveMode |-> FALSE,
     pageToMove |-> NoPage, sessionStorage |-> c.sessionStorage,
     locationHash |-> c.locationHash, moveDisplay |-> FALSE,
     deleteDisplay |-> FALSE]

\* the end of the script: login() when sessionStorage has a token
autoLogin(c, fresh) ==
    IF c.sessionStorage.githubToken # NULL THEN login(c, fresh) ELSE c

\* The user reloads the document while no request is in flight.
Reload ==
    /\ UserEvent
    /\ tasks = {}
    /\ Commit(autoLogin(Reloaded(Client), BuildWiki(RemoteListing(remote))))
    /\ UNCHANGED <<storeVars, treeVars, campVars, ghostVars>>

\* The document is left alone, settled, until the script has not run for
\* `hours` hours.
Wait(hours) ==
    /\ OpEvent
    /\ Settled
    /\ idleHours < hours
    /\ idleHours' = hours
    /\ UNCHANGED <<storeVars, treeVars, campVars, ghostVars, githubToken, wikiData,
                   currentPage, originalMarkdown, isEditMode, isNewPage,
                   autoSaveTimer, editStartSha, lastKnownRemoteSha, editor,
                   status, saveDisabled, content, pageDrafts, wikiDataCache,
                   tasks, closeTimers, isMoveMode, pageToMove,
                   sessionStorage, locationHash, moveDisplay,
                   deleteDisplay>>

startMoveMode(c) ==
    IF ~HasPage(c, c.currentPage) THEN c
    ELSE IF c.wikiData.pagesById[c.currentPage].children # <<>>
    THEN [c EXCEPT !.status = "move-has-children"]
    ELSE updateMoveButtons(
            [c EXCEPT !.isMoveMode = TRUE, !.pageToMove = c.currentPage])

cancelMoveMode(c) ==
    updateMoveButtons([c EXCEPT !.isMoveMode = FALSE, !.pageToMove = NoPage])

\* oldParts[oldParts.length - 1]
PageName(pageId) == pageId[Len(pageId)]

\* executeMove to its first request
executeMove(c, newParentId) ==
    LET newPageId == newParentId \o <<PageName(c.pageToMove)>>
    IN  IF newPageId = c.pageToMove
        THEN cancelMoveMode([c EXCEPT !.status = "move-same-location"])
        ELSE AddTask([c EXCEPT !.status = "moving"],
                     [NewTask EXCEPT !.kind = "move", !.pc = "get",
                                     !.path = c.pageToMove,
                                     !.page = newPageId])

\* the catch block of executeMove
moveFailed(c) == cancelMoveMode([c EXCEPT !.status = "move-failed"])

\* no executeMove is waiting: #move-button is not disabled
MoveEnabled == \A t \in tasks : t.kind # "move"

\* #move-button
MoveButton ==
    /\ OpEvent
    /\ WikiShown
    /\ moveDisplay
    /\ MoveEnabled
    /\ (isMoveMode /\ currentPage # pageToMove) =>
          currentPage \o <<PageName(pageToMove)>> \in PageUniverse
    /\ Commit(IF isMoveMode /\ currentPage # pageToMove
              THEN executeMove(Client, currentPage)
              ELSE startMoveMode(Client))
    /\ UNCHANGED <<storeVars, treeVars, campVars, ghostVars>>

\* #edit-button in move mode
CancelMoveButton ==
    /\ UserEvent
    /\ WikiShown
    /\ isMoveMode
    /\ Commit(cancelMoveMode(Client))
    /\ UNCHANGED <<storeVars, treeVars, campVars, ghostVars>>

\* executeMove: the response of the GET of the old file
moveGot(c, t, net, r) ==
    IF net = "ok" /\ FileExists(r, t.path)
    THEN AddTask(DropTask(c, t),
                 [t EXCEPT !.pc = "put", !.text = Atob(Btoa(r[t.path])),
                           !.putSha = ContentsSha(r, t.path)])
    ELSE moveFailed(DropTask(c, t))

MoveGetResponse(t, net) ==
    /\ UNCHANGED <<userEvents, shownAgain, opEvents>>
    /\ t.kind = "move" /\ t.pc = "get"
    /\ Answers(t, net)
    /\ Commit(moveGot(Client, t, net, remote))
    /\ UNCHANGED <<storeVars, treeVars, campVars, ghostVars>>

\* the outcome of executeMove's PUT, which names no hash
MovePutOutcome(t, net, r) ==
    IF net = "ok" THEN StorePut(r, t.page, NoSha) ELSE "fail"

\* executeMove: the response of the PUT of the new file
movePut(c, t, outcome) ==
    IF outcome = "ok"
    THEN AddTask([DropTask(c, t) EXCEPT !.status = "move-removing"],
                 [t EXCEPT !.pc = "delete"])
    ELSE moveFailed(DropTask(c, t))

MovePutResponse(t, net) ==
    /\ UNCHANGED <<userEvents, shownAgain, opEvents>>
    /\ t.kind = "move" /\ t.pc = "put"
    /\ Answers(t, net)
    /\ Commit(movePut(Client, t, MovePutOutcome(t, net, remote)))
    /\ IF MovePutOutcome(t, net, remote) = "ok"
       THEN /\ remote' = [remote EXCEPT ![t.page] = Atob(Btoa(t.text))]
            /\ remoteBy' = [remoteBy EXCEPT ![t.page] = "me"]
       ELSE UNCHANGED <<remote, remoteBy>>
    /\ UNCHANGED <<otherWrites, treeVars, campVars, ghostVars>>

\* the outcome of a DELETE of the file of t.path with the hash read before
DeleteOutcome(t, net, r) ==
    IF net = "ok" THEN StoreDelete(r, t.path, t.putSha) ELSE "fail"

\* executeMove: the response of the DELETE of the old file
moveDeleted(c, t, outcome) ==
    IF outcome = "ok"
    THEN AddTask([DropTask(c, t) EXCEPT !.status = "move-updating",
                                        !.wikiDataCache = NoCache],
                 [t EXCEPT !.pc = "reload"])
    ELSE moveFailed(DropTask(c, t))

MoveDeleteResponse(t, net) ==
    /\ UNCHANGED <<userEvents, shownAgain, opEvents>>
    /\ t.kind = "move" /\ t.pc = "delete"
    /\ Answers(t, net)
    /\ Commit(moveDeleted(Client, t, DeleteOutcome(t, net, remote)))
    /\ IF DeleteOutcome(t, net, remote) = "ok"
       THEN /\ remote' = [remote EXCEPT ![t.path] = NULL]
            /\ remoteBy' = [remoteBy EXCEPT ![t.path] = "me"]
       ELSE UNCHANGED <<remote, remoteBy>>
    /\ UNCHANGED <<otherWrites, treeVars, campVars, ghostVars>>

\* newPage.markdown = content; newPage.loaded = true
MovedPage(page, text) == [page EXCEPT !.markdown = text, !.loaded = TRUE]

\* executeMove: after loadWikiFromGitHub (fresh is its result)
moveReloaded(c, fresh, newPageId, text) ==
    LET c1 == ReplaceWiki(c, fresh)
        c2 == [c1 EXCEPT !.wikiDataCache = Stored(fresh)]
        c3 == IF HasPage(c2, newPageId)
              THEN [c2 EXCEPT !.wikiData.pagesById[newPageId] =
                                  MovedPage(@, text)]
              ELSE c2
        c4 == cancelMoveMode([c3 EXCEPT !.currentPage = newPageId,
                                        !.status = "moved"])
    IN  loadPage(c4, newPageId, FALSE)

moveListed(c, t, net, r) ==
    IF net = "ok"
    THEN moveReloaded(DropTask(c, t), BuildWiki(RemoteListing(r)), t.page,
                      t.text)
    ELSE moveFailed(DropTask(c, t))

MoveReloadResponse(t, net) ==
    /\ UNCHANGED <<userEvents, shownAgain, opEvents>>
    /\ t.kind = "move" /\ t.pc = "reload"
    /\ Answers(t, net)
    /\ Commit(moveListed(Client, t, net, remote))
    /\ UNCHANGED <<storeVars, treeVars, campVars, ghostVars>>

\* the catch block of deletePage
deleteFailed(c) == [c EXCEPT !.status = "delete-failed"]

\* deletePage to its first request, with the user's answer to confirm()
deletePage(c, accept) ==
    IF ~HasPage(c, c.currentPage) THEN c
    ELSE IF c.wikiData.pagesById[c.currentPage].children # <<>>
    THEN [c EXCEPT !.status = "delete-has-children"]
    ELSE IF ~accept THEN c
    ELSE AddTask([c EXCEPT !.status = "deleting"],
                 [NewTask EXCEPT
                     !.kind = "delete", !.pc = "get",
                     !.path = c.currentPage,
                     !.parent = c.wikiData.pagesById[c.currentPage].parentId])

\* #delete-button
DeleteButton(accept) ==
    /\ OpEvent
    /\ WikiShown
    /\ deleteDisplay
    /\ Commit(deletePage(Client, accept))
    /\ UNCHANGED <<storeVars, treeVars, campVars, ghostVars>>

\* deletePage: the response of the GET of the file
deleteGot(c, t, net, r) ==
    IF net = "ok" /\ FileExists(r, t.path)
    THEN AddTask(DropTask(c, t),
                 [t EXCEPT !.pc = "delete", !.putSha = ContentsSha(r, t.path)])
    ELSE deleteFailed(DropTask(c, t))

DeleteGetResponse(t, net) ==
    /\ UNCHANGED <<userEvents, shownAgain, opEvents>>
    /\ t.kind = "delete" /\ t.pc = "get"
    /\ Answers(t, net)
    /\ Commit(deleteGot(Client, t, net, remote))
    /\ UNCHANGED <<storeVars, treeVars, campVars, ghostVars>>

\* deletePage: the response of the DELETE
deleteDone(c, t, outcome) ==
    IF outcome = "ok"
    THEN AddTask([DropTask(c, t) EXCEPT !.wikiDataCache = NoCache],
                 [t EXCEPT !.pc = "reload"])
    ELSE deleteFailed(DropTask(c, t))

DeleteDoneResponse(t, net) ==
    /\ UNCHANGED <<userEvents, shownAgain, opEvents>>
    /\ t.kind = "delete" /\ t.pc = "delete"
    /\ Answers(t, net)
    /\ Commit(deleteDone(Client, t, DeleteOutcome(t, net, remote)))
    /\ IF DeleteOutcome(t, net, remote) = "ok"
       THEN /\ remote' = [remote EXCEPT ![t.path] = NULL]
            /\ remoteBy' = [remoteBy EXCEPT ![t.path] = "me"]
       ELSE UNCHANGED <<remote, remoteBy>>
    /\ UNCHANGED <<otherWrites, treeVars, campVars, ghostVars>>

\* deletePage: after loadWikiFromGitHub (fresh is its result); parentId is
\* page.parentId of the page deleted
deleteReloaded(c, fresh, parentId) ==
    LET c1 == ReplaceWiki(c, fresh)
        c2 == [c1 EXCEPT !.wikiDataCache = Stored(fresh),
                         !.currentPage = NoPage,
                         !.status = "deleted"]
        newPage == IF parentId # NoPage THEN parentId
                   ELSE IF fresh.tree # <<>> THEN fresh.tree[1]
                   ELSE HOME
    IN  loadPage(c2, newPage, FALSE)

deleteListed(c, t, net, r) ==
    IF net = "ok"
    THEN deleteReloaded(DropTask(c, t), BuildWiki(RemoteListing(r)), t.parent)
    ELSE deleteFailed(DropTask(c, t))

DeleteReloadResponse(t, net) ==
    /\ UNCHANGED <<userEvents, shownAgain, opEvents>>
    /\ t.kind = "delete" /\ t.pc = "reload"
    /\ Answers(t, net)
    /\ Commit(deleteListed(Client, t, net, remote))
    /\ UNCHANGED <<storeVars, treeVars, campVars, ghostVars>>

\* The session with logout, reload, move and delete, and with requests
\* that fail.
NextOps ==
    \/ Login
    \/ \E pageId \in PageUniverse : Navigate(pageId)
    \/ EditButton
    \/ StartNewPage
    \/ \E text \in UserTexts : TypeInput(text)
    \/ AutoSaveFire
    \/ \E accept \in BOOLEAN : SaveButton(accept)
    \/ CloseTimerFire
    \/ Logout
    \/ Reload
    \/ \E hours \in {23, 25} : Wait(hours)
    \/ MoveButton
    \/ CancelMoveButton
    \/ \E accept \in BOOLEAN : DeleteButton(accept)
    \/ \E t \in tasks, net \in NetResults : LoadFetchResponse(t, net)
    \/ \E t \in tasks, net \in NetResults : EditFetchResponse(t, net)
    \/ \E t \in tasks, net \in NetResults : EditSyncResponse(t, net)
    \/ \E t \in tasks, net \in NetResults : SaveUniqueResponse(t, net)
    \/ \E t \in tasks, net \in NetResults : SaveGetResponse(t, net)
    \/ \E t \in tasks, net \in NetResults : SavePutResponse(t, net)
    \/ \E t \in tasks, net \in NetResults : SaveReloadResponse(t, net)
    \/ \E t \in tasks, net \in NetResults : MoveGetResponse(t, net)
    \/ \E t \in tasks, net \in NetResults : MovePutResponse(t, net)
    \/ \E t \in tasks, net \in NetResults : MoveDeleteResponse(t, net)
    \/ \E t \in tasks, net \in NetResults : MoveReloadResponse(t, net)
    \/ \E t \in tasks, net \in NetResults : DeleteGetResponse(t, net)
    \/ \E t \in tasks, net \in NetResults : DeleteDoneResponse(t, net)
    \/ \E t \in tasks, net \in NetResults : DeleteReloadResponse(t, net)

SpecOps == Init /\ [][NextOps]_vars

(***************************************************************************)
(* Claims about failures, logout and the age of the snapshot               *)
(***************************************************************************)

\* The response `net` arrives for the request of task t, whichever it is.
Responds(t, net) ==
    \/ LoadFetchResponse(t, net)
    \/ EditFetchResponse(t, net)
    \/ EditSyncResponse(t, net)
    \/ SaveUniqueResponse(t, net)
    \/ SaveGetResponse(t, net)
    \/ SavePutResponse(t, net)
    \/ SaveReloadResponse(t, net)
    \/ MoveGetResponse(t, net)
    \/ MovePutResponse(t, net)
    \/ MoveDeleteResponse(t, net)
    \/ MoveReloadResponse(t, net)
    \/ DeleteGetResponse(t, net)
    \/ DeleteDoneResponse(t, net)
    \/ DeleteReloadResponse(t, net)

\* C12: when a request made after login is answered with the status of a
\* token that is not accepted, the client is logged out: the token is
\* cleared in memory and in sessionStorage, and the wiki is gone.
C12_AuthFailureLogsOut ==
    [][\A t \in tasks :
          (githubToken # NULL /\ Responds(t, "401"))
          => /\ githubToken' = NULL
             /\ sessionStorage' = NoSession
             /\ wikiData'.isNull]_vars

\* C13: when a request of a save, a delete or a move fails, the failure is
\* shown in the status message, and the current page, the tree in memory,
\* edit mode, move mode, the editor and the drafts are what they were.
C13_FailureKeepsSession ==
    [][\A t \in tasks :
          (t.kind \in {"save", "move", "delete"} /\ Responds(t, "fail"))
          => /\ status' \in {"save-failed", "move-failed", "delete-failed"}
             /\ UNCHANGED <<currentPage, wikiData, isEditMode, isMoveMode,
                            pageToMove, editor, pageDrafts>>]_vars

\* C14: when a request of a logged-in session fails, the operation that
\* made it ends with a failure message in the status.
C14_FailureIsShown ==
    [][\A t \in tasks :
          (WikiShown /\ Responds(t, "fail"))
          => status' \in {"save-failed", "move-failed", "delete-failed",
                          "load-failed", "edit-failed"}]_vars

\* C16: the draft of a page leaves localStorage only when a save of that
\* page succeeds or when the user discards the edit.
C16_DraftNeverExpires ==
    [][\A pageId \in PageUniverse :
          (pageDrafts[pageId] # NoDraft /\ pageDrafts'[pageId] = NoDraft)
          => \/ \E t \in tasks :
                   t.path = pageId /\ SaveReloadResponse(t, "ok")
             \/ \E accept \in BOOLEAN : CancelEdit(accept)]_vars

\* C20: a snapshot that was written 25 hours ago or earlier is treated as
\* absent: the login of a document reloaded then builds the tree from the
\* listing alone, with no body taken from the snapshot.
C20_OldSnapshotNotServed ==
    [][(/\ Reload
        /\ sessionStorage.githubToken # NULL
        /\ wikiDataCache.present
        /\ idleHours >= 25)
       => wikiData' = BuildWiki(RemoteListing(remote))]_vars

(***************************************************************************)
(* Claims about the tree of the session                                    *)
(***************************************************************************)

\* pageId followed by '/' is a prefix of childId
IsUnder(childId, pageId) ==
    /\ Len(childId) > Len(pageId)
    /\ SubSeq(childId, 1, Len(pageId)) = pageId

\* C21: in every state of the session the identifiers of the pages of the
\* tree are pairwise distinct, and every identifier among a page's children
\* begins with that page's identifier and a '/'.
C21_IdsDistinctChildrenUnderParent ==
    ~wikiData.isNull =>
        /\ \A i, j \in DOMAIN wikiData.pages :
              i # j => wikiData.pages[i] # wikiData.pages[j]
        /\ \A pageId \in DOMAIN wikiData.pagesById :
              \A k \in DOMAIN wikiData.pagesById[pageId].children :
                 IsUnder(wikiData.pagesById[pageId].children[k], pageId)

\* C21's case: the tree was rebuilt after a write of this client, and a
\* page of it has a child.
C21_Witness ==
    /\ ~wikiData.isNull
    /\ Len(wikiData.pages) >= 3
    /\ \E pageId \in DOMAIN wikiData.pagesById :
          /\ wikiData.pagesById[pageId].children # <<>>
          /\ \E k \in DOMAIN wikiData.pagesById[pageId].children :
                remoteBy[wikiData.pagesById[pageId].children[k]] = "me"

(***************************************************************************)
(* The specification of the page tree alone: loadWikiFromGitHub on the     *)
(* listings a store can return, as files are created between the builds    *)
(***************************************************************************)

\* The files a listing is drawn from: pages with and without their parent,
\* a markdown file outside the content root, and a file that is no markdown.
TreeFiles ==
    {[path |-> <<CONTENT_PATH, "a">>, ext |-> "md", sha |-> ShaOf("t0")],
     [path |-> <<CONTENT_PATH, "a", "b">>, ext |-> "md", sha |-> ShaOf("t1")],
     [path |-> <<CONTENT_PATH, "home">>, ext |-> "md", sha |-> ShaOf("t2")],
     [path |-> <<CONTENT_PATH, E_COMPOSED>>, ext |-> "md", sha |-> ShaOf("t4")],
     [path |-> <<CONTENT_PATH, E_DECOMPOSED>>, ext |-> "md",
      sha |-> ShaOf("t4")],
     [path |-> <<"images", "b">>, ext |-> "md", sha |-> ShaOf("t3")],
     [path |-> <<CONTENT_PATH, "b">>, ext |-> "png", sha |-> ShaOf("t3")]}

\* The pages of a tree whose parent identifier is no page of it.
Orphans(w) ==
    {id \in DOMAIN w.pagesById :
        ParentOf(id) # NoPage /\ ParentOf(id) \notin DOMAIN w.pagesById}

InsertAt(seq, i, x) == SubSeq(seq, 1, i - 1) \o <<x>> \o SubSeq(seq, i, Len(seq))

InitListing ==
    /\ listing = <<>>
    /\ wasOrphan = {}
    /\ InitStore /\ InitClient /\ InitGhost /\ InitCamping

\* What the tree specification leaves alone: all but the listing, the tree
\* and the pages found without their parent.
TreeFrame ==
    UNCHANGED <<storeVars, ghostVars, githubToken, currentPage,
                originalMarkdown, isEditMode, isNewPage, autoSaveTimer,
                editStartSha, lastKnownRemoteSha, editor, status,
                saveDisabled, content, pageDrafts, wikiDataCache, tasks,
                closeTimers, isMoveMode, pageToMove, sessionStorage,
                locationHash, moveDisplay, deleteDisplay, userEvents,
                shownAgain, opEvents, idleHours, campVars>>

\* A file is created in the store; the listing returns it at any place.
TreeCreate(file, i) ==
    /\ Len(listing) < MaxListing
    /\ file \notin SeqRange(listing)
    /\ i \in 1..(Len(listing) + 1)
    /\ listing' = InsertAt(listing, i, file)
    /\ UNCHANGED <<wasOrphan, wikiData>>
    /\ TreeFrame

\* wikiData = await loadWikiFromGitHub()
TreeBuild ==
    /\ wikiData' = BuildWiki(listing)
    /\ wasOrphan' = wasOrphan \cup Orphans(BuildWiki(listing))
    /\ UNCHANGED listing
    /\ TreeFrame

TreeNext ==
    \/ \E file \in TreeFiles, i \in 1..(MaxListing + 1) : TreeCreate(file, i)
    \/ TreeBuild

SpecTree == InitListing /\ [][TreeNext]_vars

(***************************************************************************)
(* Claims about the page tree                                              *)
(***************************************************************************)

\* The pages reachable from the root list through the children lists.
RECURSIVE ReachableFrom(_, _, _)
ReachableFrom(w, frontier, seen) ==
    IF frontier \subseteq seen THEN seen
    ELSE ReachableFrom(
            w,
            UNION {SeqRange(w.pagesById[id].children) : id \in frontier},
            seen \cup frontier)

Reachable(w) == ReachableFrom(w, SeqRange(w.tree), {})

\* C8: a page whose parent identifier is not among the page
\* identifiers of the listing is in the list of root pages, and every page
\* of the listing is reachable from the root list.
C8_OrphansPromoted ==
    ~wikiData.isNull =>
        /\ Orphans(wikiData) \subseteq SeqRange(wikiData.tree)
        /\ Reachable(wikiData) = DOMAIN wikiData.pagesById

\* C9: a page that an earlier build found without its parent,
\* and whose parent was created afterwards, is still a root page after the
\* rebuild and is not among its parent's children.
C9_OrphanStaysRoot ==
    \A id \in wasOrphan :
        (~wikiData.isNull /\ id \in DOMAIN wikiData.pagesById
            /\ ParentOf(id) \in DOMAIN wikiData.pagesById)
        => /\ id \in SeqRange(wikiData.tree)
           /\ id \notin SeqRange(wikiData.pagesById[ParentOf(id)].children)


\* C22: every build of the tree gives as page identifiers exactly the paths
\* of the listing's markdown files under the content root, without the root
\* and the suffix, and a page whose identifier has more than one segment
\* has as parentId its identifier without the last segment.
C22_IdsAreStrippedPaths ==
    [][TreeBuild =>
        /\ DOMAIN wikiData'.pagesById =
              {SubSeq(f.path, 2, Len(f.path)) :
                  f \in {g \in SeqRange(listing) :
                            /\ g.ext = "md"
                            /\ Len(g.path) >= 2
                            /\ g.path[1] = "content"}}
        /\ SeqRange(wikiData'.pages) = DOMAIN wikiData'.pagesById
        /\ \A id \in DOMAIN wikiData'.pagesById :
              Len(id) > 1 =>
                 wikiData'.pagesById[id].parentId = SubSeq(id, 1, Len(id) - 1)
       ]_vars

\* C22's case: a tree was built from a listing that has a page, a page
\* under it, and a file that is no page.
C22_Witness ==
    /\ ~wikiData.isNull
    /\ <<"a", "b">> \in DOMAIN wikiData.pagesById
    /\ <<"a">> \in DOMAIN wikiData.pagesById
    /\ Len(listing) > Len(wikiData.pages)


(***************************************************************************)
(* Claims about texts and drafts                                           *)
(***************************************************************************)

\* fetchPageContent of the file that holds `body`: atob of the blob
FetchedBody(body) == Atob(BlobContent(ShaOf(body)))

\* C23: a text saved as a new page is written with no hash once a free name
\* is found, and the body fetch of the file written gives the text back.
C23_NewPageRoundTrip ==
    [][\A t \in tasks :
          /\ (SaveUniqueResponse(t, "ok") /\ ~FileExists(remote, t.path))
             => \E u \in tasks' :
                   /\ u.kind = "save" /\ u.pc = "put"
                   /\ u.putSha = NoSha
                   /\ u.text = t.text
          /\ (/\ SavePutResponse(t, "ok")
              /\ t.putSha = NoSha
              /\ PutOutcome(t, "ok", remote) = "ok")
             => FetchedBody(remote'[t.path]) = t.text]_vars


\* C24: clearDraft called again for the same page changes nothing that the
\* first call left, and a call leaves the drafts of the other pages as they
\* are, whether the page has a draft or not.
C24_ClearDraftIdempotent ==
    \A pageId \in PageUniverse \cup {NoPage} :
        LET once == clearDraft(Client, pageId)
        IN  /\ clearDraft(once, pageId) = once
            /\ \A other \in PageUniverse \ {pageId} :
                  once.pageDrafts[other] = pageDrafts[other]
            /\ pageId \in PageUniverse => once.pageDrafts[pageId] = NoDraft

\* C24's case: a save has called clearDraft for the page shown, and another
\* call would find no draft of it.
C24_Witness ==
    /\ status = "saved"
    /\ currentPage \in draftCleared
    /\ pageDrafts[currentPage] = NoDraft


(***************************************************************************)
(* Claims about the order of the tree                                      *)
(***************************************************************************)

\* The orders in which a listing can return the files of s.
ListingOrders(s) ==
    {o \in [1..Len(s) -> SeqRange(s)] : SeqRange(o) = SeqRange(s)}

\* C25: a build gives the same order of the root pages and of every page's
\* children in whatever order the listing returns the same files.
C25_OrderIndependentOfListing ==
    [][TreeBuild =>
         \A other \in ListingOrders(listing) :
             LET w == BuildWiki(other)
             IN  /\ w.tree = wikiData'.tree
                 /\ w.pages = wikiData'.pages
                 /\ \A id \in DOMAIN w.pagesById :
                       w.pagesById[id].children
                           = wikiData'.pagesById[id].children]_vars


(***************************************************************************)
(* Claims about the page an edit belongs to                                *)
(***************************************************************************)

\* C28: when enterEditMode ends after its requests and edit mode is on, the
\* page it took the editor's text and editStartSha from is currentPage, so
\* a save writes the page whose body is in the editor.
C28_EditOfCurrentPage ==
    [][\A t \in tasks :
          (/\ \E net \in NetResults :
                 EditFetchResponse(t, net) \/ EditSyncResponse(t, net)
           /\ ~isEditMode
           /\ isEditMode')
          => /\ currentPage' = t.page
             /\ editStartSha' = wikiData'.pagesById[currentPage'].sha]_vars


(***************************************************************************)
(* Claims about hashes and bodies                                          *)
(***************************************************************************)

\* Every loaded page of the tree w has the body its hash names, or no hash.
BodiesMatchHashes(w) ==
    w.isNull \/ \A id \in DOMAIN w.pagesById :
                    LET page == w.pagesById[id]
                    IN  page.loaded =>
                          page.sha = NoSha \/ page.sha = ShaOf(page.markdown)

\* C29: in memory and in the stored snapshot, the body of every loaded page
\* is the content its stored hash identifies, or the stored hash is null.
C29_HashIdentifiesBody ==
    /\ BodiesMatchHashes(wikiData)
    /\ wikiDataCache.present => BodiesMatchHashes(wikiDataCache.data)


\* C30: while a new page is being written with P as the current page, no
\* step creates or changes the draft stored under P.
C30_NewPageLeavesParentDraft ==
    [][(isNewPage /\ currentPage # NoPage)
          => pageDrafts'[currentPage] = pageDrafts[currentPage]]_vars


(***************************************************************************)
(* The camping page: the favorite and disable buttons of a card, and the   *)
(* responses of saveFavorites                                              *)
(***************************************************************************)

CampFrame == UNCHANGED <<storeVars, clientVars, treeVars, ghostVars>>

\* saveFavorites up to its PUT: the new state is shown before it is saved,
\* and the PUT carries the hash the component had when the card was clicked
saveFavorites(newFavorites, areaId) ==
    /\ Cardinality(campSaves) < MaxCampSaves
    /\ savingAreaId' = areaId
    /\ favorites' = newFavorites
    /\ campSaves' = campSaves \cup {[pc |-> "put", data |-> newFavorites,
                                     sha |-> favoritesSha]}
    /\ UNCHANGED <<favoritesSha, favoritesFile>>

\* the star of a card: disabled={isSaving || (!isFavorite && favoriteCount
\* >= 5)}, then toggleFavorite(area.id)
ToggleFavorite(areaKey) ==
    /\ savingAreaId # areaKey
    /\ areaKey \in SeqRange(favorites.favorites)
          \/ Len(favorites.favorites) < FAVORITE_LIMIT
    /\ saveFavorites(
          IF areaKey \in SeqRange(favorites.favorites)
          THEN [favorites EXCEPT
                   !.favorites = SelectSeq(@, LAMBDA f : f # areaKey)]
          ELSE [favorites EXCEPT !.favorites = Append(@, areaKey)],
          areaKey)
    /\ CampFrame

\* the cross of a card: disabled={isSaving}, then toggleDisabled(area.id)
ToggleDisabled(areaKey) ==
    /\ savingAreaId # areaKey
    /\ saveFavorites(
          IF areaKey \in favorites.autoDisabled
          THEN [favorites EXCEPT !.autoDisabled = @ \ {areaKey}]
          ELSE IF areaKey \in favorites.disabled
          THEN [favorites EXCEPT !.disabled = @ \ {areaKey}]
          ELSE [favorites EXCEPT !.disabled = @ \cup {areaKey}],
          areaKey)
    /\ CampFrame

\* saveFavorites: the response of saveFile's PUT, which the store takes when
\* the hash sent is the file's; then the GET of fetchFile is sent, from the
\* try block or from the catch block
FavoritesPutResponse(s, net) ==
    /\ s.pc = "put"
    /\ IF net = "ok" /\ s.sha = ShaOf(favoritesFile)
       THEN /\ favoritesFile' = s.data
            /\ campSaves' = (campSaves \ {s}) \cup {[s EXCEPT !.pc = "fetch"]}
       ELSE /\ UNCHANGED favoritesFile
            /\ campSaves' = (campSaves \ {s}) \cup {[s EXCEPT !.pc = "reload"]}
    /\ UNCHANGED <<favorites, favoritesSha, savingAreaId>>
    /\ CampFrame

\* saveFavorites: the response of fetchFile's GET, taken to succeed; after a
\* failed PUT the state is replaced by the file's
FavoritesGetResponse(s) ==
    /\ s.pc \in {"fetch", "reload"}
    /\ favorites' = IF s.pc = "reload" THEN favoritesFile ELSE favorites
    /\ favoritesSha' = ShaOf(favoritesFile)
    /\ savingAreaId' = NoArea
    /\ campSaves' = campSaves \ {s}
    /\ UNCHANGED favoritesFile
    /\ CampFrame

CampNext ==
    \/ \E areaKey \in SeqRange(RecAreaIds) : ToggleFavorite(areaKey)
    \/ \E areaKey \in SeqRange(RecAreaIds) : ToggleDisabled(areaKey)
    \/ \E s \in campSaves, net \in {"ok", "fail"} : FavoritesPutResponse(s, net)
    \/ \E s \in campSaves : FavoritesGetResponse(s)

SpecCamping == Init /\ [][CampNext]_vars

(***************************************************************************)
(* Claims about the camping page                                           *)
(***************************************************************************)

\* C26: the favorites list, as shown and as saved, never holds more than
\* the four areas the plan allows.
C26_AtMostFourFavorites ==
    /\ Len(favorites.favorites) <= PLANNED_MAX_FAVORITES
    /\ Len(favoritesFile.favorites) <= PLANNED_MAX_FAVORITES

\* C27: in the list shown, no disabled area (by hand or by the scanner)
\* stands before an area that is not disabled.
C27_DisabledAreasLast ==
    LET shown == sortedAreas(favorites)
    IN  \A i, j \in DOMAIN shown :
            (i < j /\ IsDisabledArea(favorites, shown[i]))
                => IsDisabledArea(favorites, shown[j])


(***************************************************************************)
(* Claims about moves, deletes and logout                                  *)
(***************************************************************************)

\* executeMove's request t is answered and executeMove ends with this step
MoveEnds(t) ==
    /\ t.kind = "move"
    /\ \E net \in NetResults :
          \/ MoveGetResponse(t, net) \/ MovePutResponse(t, net)
          \/ MoveDeleteResponse(t, net) \/ MoveReloadResponse(t, net)
    /\ \A u \in tasks' : u.kind # "move"

\* C31: when executeMove ends, with success or with an error at any of its
\* requests, the moved page's file is at exactly one of the old and the new
\* path (an error before the new file is written leaves both paths as they
\* were), and the tree in memory has the page where the store has the file.
C31_MoveAllOrNothing ==
    [][\A t \in tasks :
          MoveEnds(t) =>
             /\ t.pc \in {"get", "put"} =>
                   /\ remote'[t.path] = remote[t.path]
                   /\ remote'[t.page] = remote[t.page]
             /\ t.pc \in {"delete", "reload"} =>
                   /\ FileExists(remote', t.path) # FileExists(remote', t.page)
                   /\ HasPage(Client', t.path) <=> FileExists(remote', t.path)
                   /\ HasPage(Client', t.page) <=> FileExists(remote', t.page)]_vars


\* Local storage holds neither the snapshot nor a draft.
LocalDataAbsent ==
    /\ ~wikiDataCache.present
    /\ \A pageId \in PageUniverse : pageDrafts[pageId] = NoDraft

\* C32: while nobody is logged in, local storage that holds neither the
\* snapshot nor a draft (as logout leaves it) stays so until the next login,
\* whatever request or timer of the session before is still pending.
C32_LogoutIsFinal ==
    [][(/\ githubToken = NULL
        /\ LocalDataAbsent
        /\ githubToken' = NULL)
          => LocalDataAbsent']_vars


(***************************************************************************)
(* Claims about the outcome of a save                                      *)
(***************************************************************************)

\* C33: once the PUT of a save has succeeded (saveEdit is waiting for the
\* listing), the save ends reported as saved and with the draft of the saved
\* page cleared, whatever the answer to the listing request.
C33_WrittenSaveIsReportedSaved ==
    [][\A t \in tasks :
          (\E net \in NetResults : SaveReloadResponse(t, net))
             => /\ status' = "saved"
                /\ pageDrafts'[t.path] = NoDraft]_vars


\* C34: when edit mode is entered for an existing page from the draft that
\* an edit of it has stored of a text the user typed, originalMarkdown is the body of that page as
\* loaded, as it is when edit mode is entered without a draft.
C34_OriginalIsPageBody ==
    [][(/\ ~isEditMode
        /\ isEditMode'
        /\ ~isNewPage'
        /\ HasPage(Client', currentPage')
        /\ wikiData'.pagesById[currentPage'].loaded
        /\ pageDrafts[currentPage'] # NoDraft
        /\ pageDrafts[currentPage'].baseSha # NoSha
        /\ pageDrafts[currentPage'].content \in UserTexts
        /\ editor' = DraftContent(pageDrafts[currentPage']))
          => originalMarkdown' = wikiData'.pagesById[currentPage'].markdown]_vars


\* C35: with no write by another client, the hash check that enterEditMode
\* makes for the page shown, after this client has itself saved that page
\* and while the page is still shown, finds no new remote hash and raises
\* no 'updated remotely' warning.
C35_NoWarningWithoutOtherWriter ==
    [][\A t \in tasks :
          (/\ otherWrites = 0
           /\ remoteBy[currentPage] = "me"
           /\ EditSyncResponse(t, "ok")
           /\ ~t.stale
           /\ t.page = currentPage
           /\ t.path = currentPage)
             => /\ lastKnownRemoteSha' = lastKnownRemoteSha
                /\ status' \notin {"remote-updated", "remote-updated-editing"}]_vars


(***************************************************************************)
(* Claims about new pages                                                  *)
(***************************************************************************)

\* C36: the write of a new page goes to a file with a name that is not
\* empty, carries no hash, and when the store takes it no file that existed
\* is changed.
C36_NewPageWriteIsFresh ==
    [][\A t \in tasks :
          /\ (\E net \in NetResults : SaveUniqueResponse(t, net))
                => \A u \in tasks' \ tasks :
                      u.pc = "put" => /\ u.putSha = NoSha
                                      /\ PageName(u.path) # ""
          /\ (SavePutResponse(t, "ok") /\ t.putSha = NoSha)
                => \A pageId \in PageUniverse :
                      FileExists(remote, pageId)
                          => remote'[pageId] = remote[pageId]]_vars


(***************************************************************************)
(* Claims about termination                                                *)
(***************************************************************************)

\* The session of SpecOps in which every timer that saveEdit has set
\* eventually fires; the user is never obliged to act.
SpecOpsLive ==
    SpecOps /\ WF_vars(CloseTimerFire)

\* every request is eventually answered: again and again no request is in
\* flight
RequestsComplete ==
    []<>(tasks = {})

\* C37: every save attempt comes to an end and the save button is enabled
\* again afterwards: if every request is eventually answered, then whenever
\* the button is disabled it is eventually enabled, whatever the user does
\* in between (navigation and logout included).
C37_SaveButtonEnabledAgain ==
    RequestsComplete => (saveDisabled ~> ~saveDisabled)


(***************************************************************************)
(* Claims about login                                                      *)
(***************************************************************************)

\* C38: a login with a valid token against a store that answers succeeds and
\* shows the wiki, whatever earlier sessions, also ones ended by logout
\* while requests were in flight, have left in local storage.
C38_LoginSucceeds ==
    [][Login => WikiShown']_vars


(***************************************************************************)
(* Claims about pages with children                                        *)
(***************************************************************************)

\* the page has children in the tree in memory
HasChildrenInMemory(pageId) ==
    /\ HasPage(Client, pageId)
    /\ wikiData.pagesById[pageId].children # <<>>

\* the requests of executeMove and of deletePage that change the store
Mutations(ts) ==
    {t \in ts : t.kind \in {"move", "delete"} /\ t.pc \in {"put", "delete"}}

\* C39: a page that has children in the tree in memory is neither deleted
\* nor moved: when deletePage or executeMove sends a PUT or a DELETE, the
\* page it deletes or moves has no children in the tree, also when the tree
\* has been rebuilt since the button was clicked.
C39_NoMutationOfParent ==
    [][\A u \in Mutations(tasks') \ tasks :
          ~HasChildrenInMemory(u.path)]_vars

====
